---- MODULE Spec2Model ----
(***************************************************************************)
(* Camera navigation controller and adaptive point-cloud renderer of       *)
(* lovetheland/atoms (src/main.js, src/shaders.js), as a state machine.    *)
(*                                                                         *)
(* Numbers.  The program computes in IEEE doubles (and in single precision *)
(* on the GPU).  Here every real quantity is a fixed-point integer.  The    *)
(* camera and the navigation state are in units of 1e-7 (PANSCALE): the    *)
(* integer v stands for the real v / PANSCALE, and every product or        *)
(* quotient is rounded to the nearest unit, as a double operation rounds   *)
(* to the nearest double.  What the shader, the overlay and the zoom       *)
(* counter compute is in units of 1e-4 (SCALE), truncated toward zero.     *)
(* Pixel sizes, pixel coordinates and milliseconds are plain integers.     *)
(***************************************************************************)
EXTENDS Integers, Sequences, FiniteSets, TLC

\* ------------------------------------------------------------------ bounds

\* Callbacks (image load, animation frames, input events) one behaviour runs.
MaxSteps == 3
\* Zoom ticks of the end-to-end zoom scenario.
MaxTicks == 70

\* -------------------------------------------------------------- arithmetic

SCALE == 100 * 100

Abs(a) == IF a < 0 THEN -a ELSE a

Min(a, b) == IF a < b THEN a ELSE b

Max(a, b) == IF a > b THEN a ELSE b

\* Math.sign
Sign(a) == IF a > 0 THEN 1 ELSE IF a < 0 THEN -1 ELSE 0

\* Integer quotient truncated toward zero (b # 0).
Div(a, b) ==
  LET q == Abs(a) \div Abs(b)
  IN  IF (a < 0) = (b < 0) THEN q ELSE -q

\* The fixed-point value of the decimal n / d.
Fp(n, d) == Div(n * SCALE, d)

\* Product of two non-negative fixed-point values, truncated toward zero,
\* computed in pieces so that only the result has to fit a machine integer.
MulNat(a, b) ==
  LET ah == a \div SCALE
      al == a % SCALE
      bh == b \div SCALE
      bl == b % SCALE
  IN  ah * bh * SCALE + ah * bl + al * bh + ((al * bl) \div SCALE)

\* Fixed-point product a * b.
Mul(a, b) == Sign(a) * Sign(b) * MulNat(Abs(a), Abs(b))

\* The four decimal places of r / n for 0 <= r < n, by long division two
\* digits at a time (n below 2 * 10^7, that is 2000.0).
QuotDigits(r, n) == ((r * 100) \div n) * 100 + ((((r * 100) % n) * 100) \div n)

\* Quotient of fixed-point values m >= 0 and n > 0, truncated toward zero.
QuotNat(m, n) == (m \div n) * SCALE + QuotDigits(m % n, n)

\* Fixed-point quotient a / b (b # 0).
Quot(a, b) == Sign(a) * Sign(b) * QuotNat(Abs(a), Abs(b))

\* The camera and the navigation (camera.zoom, targetZoom, zoomVelocity,
\* camera.position, targetPosition, panVelocity, the camera bounds, the drift
\* vectors, the zoom directions and autoZoomVelocity) are kept to seven
\* decimals: the thresholds 0.0001 and 0.00001, the auto-zoom step at zoom 80
\* (about 0.00018) and the momentum summed over some fifty ticks all lie at or
\* below one unit of SCALE.  FINE is the number of their units in one unit of
\* SCALE, PANSCALE the number in 1.0.  The shader's uniforms, the overlay and
\* the zoom counter stay in units of SCALE.
FINE == 10 * 100

PANSCALE == SCALE * FINE

\* The value n / d in units of PANSCALE (|n| <= 214).
Pp(n, d) == Div(n * PANSCALE, d)

\* A value in units of SCALE, in units of PANSCALE.
ToFine(a) == a * FINE

\* A value in units of PANSCALE, in units of SCALE (truncated toward zero):
\* what a uniform, the overlay and the zoom counter keep of it.
ToCoarse(a) == Div(a, FINE)

\* A value a in units of PANSCALE times a factor k in units of SCALE with
\* |k| <= 2.0, rounded to the nearest unit of PANSCALE (a half away from
\* zero).
Scaled(a, k) ==
  Sign(a) * Sign(k)
    * ((Abs(a) \div SCALE) * Abs(k)
       + (((Abs(a) % SCALE) * Abs(k) + (SCALE \div 2)) \div SCALE))

\* The product of two non-negative values in units of PANSCALE, a * b /
\* PANSCALE rounded to the nearest unit (the half is added to the thousandths
\* of a unit), computed in pieces so that only the result and the cross terms
\* have to fit a machine integer.
MulFineNat(a, b) ==
  (a \div SCALE) * (b \div SCALE) * (SCALE \div FINE)
  + (((a \div SCALE) * (b % SCALE) + (a % SCALE) * (b \div SCALE)
      + (((a % SCALE) * (b % SCALE)) \div SCALE) + (FINE \div 2)) \div FINE)

\* The product a * b of two values in units of PANSCALE.
MulFine(a, b) == Sign(a) * Sign(b) * MulFineNat(Abs(a), Abs(b))

\* One digit of a long division by b in the given base.  s is << quotient so
\* far, remainder >> with remainder < b; t is the trial digit, the remainder
\* divided by b's leading part b \div base, which is the digit or one more.
TrialStep(s, b, base, t) ==
  IF base * (s[2] % (b \div base)) < t * (b % base)
  THEN << s[1] * base + t - 1, (base * (s[2] % (b \div base)) + b) - t * (b % base) >>
  ELSE << s[1] * base + t, base * (s[2] % (b \div base)) - t * (b % base) >>

\* One digit of a long division by b: directly when remainder * base fits a
\* machine integer (b * base <= 2 * 10^9), by a trial digit otherwise (b is
\* above base * base then).
DivStep(s, b, base) ==
  IF b <= (2 * SCALE * SCALE * 10) \div base
  THEN << s[1] * base + ((s[2] * base) \div b), (s[2] * base) % b >>
  ELSE TrialStep(s, b, base, s[2] \div (b \div base))

\* The quotient s[1] of a long division by b rounded to the nearest integer:
\* one more when the remainder s[2] is half of b or above.
DivRounded(s, b) == IF s[2] >= b - s[2] THEN s[1] + 1 ELSE s[1]

\* a * PANSCALE / b rounded to the nearest integer for a >= 0 and b > 0: the
\* integer part and seven decimals by long division (digits in base 1000,
\* 1000 and 10), then the rounding by the remainder.
DivFineNat(a, b) ==
  DivRounded(DivStep(DivStep(DivStep(<< a \div b, a % b >>, b, 10 * 100), b, 10 * 100),
                     b, 10), b)

\* The quotient a / b of two values in the same unit, in units of PANSCALE
\* (b # 0).
DivFine(a, b) == Sign(a) * Sign(b) * DivFineNat(Abs(a), Abs(b))

\* a * n / d rounded to the nearest integer for plain integers n and d (pixel
\* counts, milliseconds) with |n| * |d| within a machine integer: one
\* rounding for the product and the quotient together.
Prorated(a, n, d) ==
  Sign(a) * Sign(n) * Sign(d)
    * ((Abs(a) \div Abs(d)) * Abs(n)
       + (((Abs(a) % Abs(d)) * Abs(n) + (Abs(d) \div 2)) \div Abs(d)))

\* Math.sqrt of a non-negative plain integer, rounded down (Newton's iteration).
RECURSIVE SqrtIter(_, _)
SqrtIter(n, x) ==
  LET y == (x + n \div x) \div 2
  IN  IF y >= x THEN x ELSE SqrtIter(n, y)

ISqrt(n) == IF n <= 0 THEN 0 ELSE SqrtIter(n, n)

\* pi in units of PANSCALE.
PiFine == 31415927

\* One step of the sine's series in Horner form: 1 - w * t / n.
SeriesStep(w, t, n) == PANSCALE - (MulFine(w, t) \div n)

\* sin q for 0 <= q <= pi / 2, w being q * q: the Taylor series up to q^11 / 11!
\* (the next term is below 6e-8).
SinSeries(q, w) ==
  MulFine(q,
    SeriesStep(w, SeriesStep(w, SeriesStep(w, SeriesStep(w,
      SeriesStep(w, PANSCALE, 110), 72), 42), 20), 6))

\* sin h for 0 <= h <= pi: sin(pi - h) = sin h.
SinHalfWave(h) ==
  IF 2 * h > PiFine
  THEN Min(PANSCALE, SinSeries(PiFine - h, MulFine(PiFine - h, PiFine - h)))
  ELSE Min(PANSCALE, SinSeries(h, MulFine(h, h)))

\* Math.sin of an angle in radians, both in units of PANSCALE.  The argument is
\* reduced modulo 2 pi; sin(pi + h) = -sin h.
Sin(x) ==
  IF x % (2 * PiFine) >= PiFine
  THEN -SinHalfWave((x % (2 * PiFine)) - PiFine)
  ELSE SinHalfWave(x % (2 * PiFine))

\* The power of ten by which the components of a vector are divided before
\* their squares are summed, so that the sum fits a machine integer and the
\* larger component keeps four to five digits.
RECURSIVE LengthUnit(_, _)
LengthUnit(m, k) == IF m \div k < 30000 THEN k ELSE LengthUnit(m, 10 * k)

\* Math.sqrt(x * x + y * y) to the digits that fit: the root of the reduced
\* squares' sum, in the vector's unit.
LengthEstimate(x, y, k) ==
  k * ISqrt((Abs(x) \div k) * (Abs(x) \div k) + (Abs(y) \div k) * (Abs(y) \div k))

\* One step of Newton's iteration for the length from the estimate e > 0:
\* (e + (x * x + y * y) / e) / 2, which doubles the number of correct digits.
LengthRefined(x, y, e) ==
  e + ((MulFine(Abs(x), DivFine(Abs(x), e)) + MulFine(Abs(y), DivFine(Abs(y), e)) - e) \div 2)

\* Math.sqrt(x * x + y * y) of a vector in units of PANSCALE: the estimate
\* itself where the squares were summed unreduced (or the vector is zero), the
\* refined estimate otherwise.
Length(x, y) ==
  IF LengthUnit(Max(Abs(x), Abs(y)), 1) = 1 THEN LengthEstimate(x, y, 1)
  ELSE LengthRefined(x, y, LengthEstimate(x, y, LengthUnit(Max(Abs(x), Abs(y)), 1)))

\* ----------------------------------------------------------- configuration

\* CONFIG of main.js.  The zoom levels and speeds the camera and the
\* navigation work with (minZoom, autoMovementSpeed, autoZoomSpeed,
\* autoZoomMinLevel, autoZoomMaxLevel) are in units of PANSCALE; the factors
\* and the zoom levels of the shader, the overlay and the zoom counter are in
\* units of SCALE.  The two enable flags of the autonomous navigation are part
\* of the state (cfg) so that both settings are explored.
CONFIG ==
  [ frustumSize                |-> Fp(1, 1),
    zoomStep                   |-> Fp(2, 100),
    minZoom                    |-> Pp(1, 10),
    zoomDamping                |-> Fp(5, 100),
    panDamping                 |-> Fp(85, 100),
    planeHeight                |-> Fp(2, 1),
    cameraZ                    |-> Fp(5, 1),
    pointSize                  |-> Fp(1, 1),
    texturePlaneFadeStartZoom  |-> Fp(4, 1),
    texturePlaneFadeEndZoom    |-> Fp(12, 1),
    zoomThreshold              |-> Fp(1, 1),
    maxZoomForSizeTransition   |-> Fp(5, 1),
    displacementAmount         |-> Fp(5, 1000),
    displacementStartZoom      |-> Fp(5, 1),
    displacementFullZoom       |-> Fp(1000, 1),
    brightnessBoost            |-> Fp(-5, 100),
    brightnessBoostStartZoom   |-> Fp(10, 1),
    brightnessBoostEnabled     |-> TRUE,
    autoMovementSpeed          |-> Pp(4, 1000),
    autoMovementEdgeThreshold  |-> Fp(15, 100),
    autoMovementEdgeForce      |-> Fp(5, 100),
    autoZoomSpeed              |-> Pp(15, 1000),
    autoZoomSpeedVariability   |-> Fp(2, 10),
    autoZoomMinLevel           |-> Pp(1, 1),
    autoZoomMaxLevel           |-> Pp(80, 1) ]

\* |zoomVelocity| > 0.0001 in updateZoom, in units of PANSCALE.
ZoomEpsilon == Pp(1, 10000)

\* |panVelocity| > 0.00001 in updatePan, in units of PANSCALE.
PanEpsilon == Pp(1, 100000)

\* The fixed blend fraction 0.2 of updateZoom.
BlendFraction == Fp(2, 10)

\* The smoothing factor 0.1 of updateAutoMovement and updateAutoZoom.
SmoothingFactor == Fp(1, 10)

\* uniforms.time.value += 0.016
TimeStep == Fp(16, 1000)

\* ------------------------------------------------------------------ inputs

\* window.innerWidth x window.innerHeight the browser may report.
WindowSizes == { <<320, 240>>, <<480, 240>> }

\* Pointer positions (clientX, clientY) in a window of w x h pixels: the
\* centre, the right edge a quarter down, and a pixel whose clientX / innerWidth
\* and clientY / innerHeight have no finite decimal expansion or a long one.
Pointers(w, h) == { <<w \div 2, h \div 2>>, <<w, h \div 4>>, <<107, 77>> }

\* event.deltaY of a wheel event.
WheelDeltas == { -100, 100 }

\* Decoded image sizes (texture.image.width x height).
ImageSizes == { <<480, 400>> }

\* Math.random() * 100 for the seed uniform: the outcome followed.
Seeds == { Fp(7, 1) }

\* The float arithmetic the vertex shader runs in: single precision (a GPU's
\* highp float) or double precision.  The build decides; the program cannot.
Precisions == { "single", "double" }

\* (Math.cos(angle), Math.sin(angle)) for sampled random angles, 0 and
\* 5 pi/4, in units of PANSCALE.
Directions == { <<Pp(1, 1), 0>>, <<-7071068, -7071068>> }

\* The outcomes of "Math.random() < autoMovementChangeRate, then a random
\* angle": no change of direction, or a change to one of Directions.
NoChange == << 0, 0 >>

DirectionChanges == { NoChange } \cup Directions

\* Milliseconds between two animation frames, as Date.now() sees them.
FrameIntervals == { 16 }

\* Milliseconds the image takes to load.
LoadDelays == { 400 }

\* Date.now() at init, in milliseconds since an arbitrary origin.
StartTimes == { 1000 }

\* Pixel indices (ix, iy) of the point samples whose shader run is followed.
SamplePoints == { <<0, 0>>, <<240, 200>>, <<17, 333>>, <<479, 399>> }

\* ------------------------------------------------------------------- state

VARIABLES
  cfg,         \* CONFIG.autoMovementEnabled, CONFIG.autoZoomEnabled
  cam,         \* camera.zoom, targetZoom, zoomVelocity, camera.position,
               \* targetPosition, panVelocity
  isDragging,  \* the drag flag
  lastMouse,   \* lastMouse
  win,         \* window.innerWidth, window.innerHeight
  frustum,     \* camera.left, right, top, bottom
  orient,      \* camera.position.z and the point the camera looks at
  auto,        \* autoMovementVector, targetAutoMovementVector,
               \* autoZoomDirection, targetAutoZoomDirection,
               \* autoZoomVelocity, lastAutoZoomTime
  now,         \* Date.now()
  load,        \* "pending", "loaded" or "failed": the TextureLoader callback
  img,         \* imageDimensions and calculatedPlaneWidth
  uni,         \* densePointsMesh.material.uniforms (meaningful once loaded)
  plane,       \* texturePlaneMesh.material.opacity and .visible
  hud,         \* the factors animate computes for the zoom counter
  drawn,       \* what the last renderer.render drew: the vertex shader's results
  log,         \* the statements the last frame ran, in execution order, with
               \* the state before and after each
  steps        \* callbacks run so far

vars == << cfg, cam, isDragging, lastMouse, win, frustum, orient, auto, now, load,
           img, uni, plane, hud, drawn, log, steps >>

\* ------------------------------------------------------- setup (init)

\* window.innerWidth / window.innerHeight, in units of PANSCALE.
Aspect(w) == DivFine(w[1], w[2])

\* The frustum setupCamera and onResize give the orthographic camera.
Frustum(w) ==
  [ left   |-> -Scaled(Aspect(w), CONFIG.frustumSize),
    right  |-> Scaled(Aspect(w), CONFIG.frustumSize),
    top    |-> ToFine(CONFIG.frustumSize),
    bottom |-> -ToFine(CONFIG.frustumSize) ]

\* setupCamera, then initializeAutoZoom's camera.zoom = 1, targetZoom = 1.
setupCamera ==
  [ zoom           |-> Pp(1, 1),
    targetZoom     |-> Pp(1, 1),
    zoomVelocity   |-> 0,
    position       |-> [x |-> 0, y |-> 0],
    targetPosition |-> [x |-> 0, y |-> 0],
    panVelocity    |-> [x |-> 0, y |-> 0] ]

\* initializeAutoMovement and initializeAutoZoom, with the random direction d,
\* the outcome up of Math.random() > 0.5 and lastAutoZoomTime = Date.now().
initializeAuto(d, up, t) ==
  [ autoMovementVector       |-> [x |-> d[1], y |-> d[2]],
    targetAutoMovementVector |-> [x |-> d[1], y |-> d[2]],
    autoZoomDirection        |-> IF up THEN Pp(1, 1) ELSE Pp(-1, 1),
    targetAutoZoomDirection  |-> IF up THEN Pp(1, 1) ELSE Pp(-1, 1),
    autoZoomVelocity         |-> 0,
    lastAutoZoomTime         |-> t ]

\* No mesh, no uniforms, no overlay plane and nothing drawn before the load.
NoUniforms ==
  [ seed |-> 0, precision |-> "none", cameraZoom |-> 0, screenWidth |-> 0,
    screenHeight |-> 0,
    imageWidth |-> 0, imageHeight |-> 0, planeWidth |-> 0, planeHeight |-> 0,
    displacementStartZoom |-> 0, displacementFullZoom |-> 0,
    time |-> 0, brightnessBoost |-> 0 ]

NoPlane == [ opacity |-> 0, visible |-> FALSE ]

NoHud == [ zoomFactor |-> 0, displacementFactor |-> 0 ]

NoDraw ==
  [ samplingRate |-> 0, visible |-> {}, displacementFactor |-> 0,
    cameraZoom |-> 0, screenWidth |-> 0, screenHeight |-> 0, time |-> 0 ]

\* init(): the state once the script has run, the image still loading.
Init ==
  /\ cfg = [ autoMovementEnabled |-> TRUE, autoZoomEnabled |-> TRUE ]
  /\ cam = setupCamera
  /\ isDragging = FALSE
  /\ lastMouse = [x |-> 0, y |-> 0]
  /\ win \in WindowSizes
  /\ frustum = Frustum(win)
  /\ orient = [ z |-> CONFIG.cameraZ, lookAt |-> [x |-> 0, y |-> 0] ]
  /\ now \in StartTimes
  /\ \E d \in Directions, up \in BOOLEAN : auto = initializeAuto(d, up, now)
  /\ load = "pending"
  /\ img = [ width |-> 0, height |-> 0, planeWidth |-> 0 ]
  /\ uni = NoUniforms
  /\ plane = NoPlane
  /\ hud = NoHud
  /\ drawn = NoDraw
  /\ log = << >>
  /\ steps = 0

\* ---------------------------------------------------------- input handlers

\* mouseNDC of onWheel for the pointer p in the window w, as exact fractions
\* num / den: (clientX / innerWidth) * 2 - 1 = (2 clientX - innerWidth) /
\* innerWidth and -(clientY / innerHeight) * 2 + 1 = (innerHeight - 2 clientY) /
\* innerHeight.
MouseNDC(p, w) ==
  [ x |-> [ num |-> 2 * p[1] - w[1], den |-> w[1] ],
    y |-> [ num |-> w[2] - 2 * p[2], den |-> w[2] ] ]

\* ndc * extent / 2 / zoom for the fraction ndc: the pointer's offset from the
\* camera in world units.  The visible extent, extent / zoom, is taken first
\* and the fraction ndc / 2 of it last, so that neither truncation is scaled
\* up by a later factor.
AnchorOffset(ndc, extent, zoom) ==
  Prorated(DivFine(extent, zoom), ndc.num, 2 * ndc.den)

\* mouseWorld of onWheel: the cursor's world-space anchor.
MouseWorld(c, f, p, w) ==
  [ x |-> AnchorOffset(MouseNDC(p, w).x, f.right - f.left, c.zoom) + c.position.x,
    y |-> AnchorOffset(MouseNDC(p, w).y, f.top - f.bottom, c.zoom) + c.position.y ]

\* onWheel with the anchor offset taken from targetPosition instead of the
\* camera's position.
onWheelFromTarget(c, f, p, w, dy) ==
  LET mouseWorld == MouseWorld(c, f, p, w)
      direction  == Sign(-dy)
      zoomFactor == direction * CONFIG.zoomStep
  IN  [ c EXCEPT
          !.zoomVelocity = @ + Scaled(c.zoom, direction * CONFIG.zoomStep),
          !.targetPosition =
            [ x |-> @.x + Scaled(mouseWorld.x - c.targetPosition.x, zoomFactor),
              y |-> @.y + Scaled(mouseWorld.y - c.targetPosition.y, zoomFactor) ] ]

\* onWheel applying its zoom step to camera.zoom at once as well.
onWheelDirect(c, f, p, w, dy) ==
  LET mouseWorld == MouseWorld(c, f, p, w)
      direction  == Sign(-dy)
      zoomFactor == direction * CONFIG.zoomStep
  IN  [ c EXCEPT
          !.zoom = @ + Scaled(c.zoom, direction * CONFIG.zoomStep),
          !.zoomVelocity = @ + Scaled(c.zoom, direction * CONFIG.zoomStep),
          !.targetPosition =
            [ x |-> @.x + Scaled(mouseWorld.x - c.position.x, zoomFactor),
              y |-> @.y + Scaled(mouseWorld.y - c.position.y, zoomFactor) ] ]

\* onWheel: the camera state after a wheel event with deltaY dy at pointer p.
onWheel(c, f, p, w, dy) ==
  LET mouseWorld == MouseWorld(c, f, p, w)
      direction  == Sign(-dy)
      zoomFactor == direction * CONFIG.zoomStep
  IN  [ c EXCEPT
          !.zoomVelocity = @ + Scaled(c.zoom, direction * CONFIG.zoomStep),
          !.targetPosition =
            [ x |-> @.x + Scaled(mouseWorld.x - c.position.x, zoomFactor),
              y |-> @.y + Scaled(mouseWorld.y - c.position.y, zoomFactor) ] ]

\* onMouseDown: panVelocity = 0 (the flag and lastMouse are set by the action).
onMouseDown(c) == [ c EXCEPT !.panVelocity = [x |-> 0, y |-> 0] ]

\* dx * extent / zoom for dx = pixels / size (a pointer's move over the
\* window's width or height): dx is not rounded on its own; the visible
\* extent, extent / zoom, is taken first and the fraction dx of it last.
PanAmount(pixels, size, extent, zoom) ==
  Prorated(DivFine(extent, zoom), pixels, size)

\* panX, panY of onMouseMove for the pointer p, the previous pointer m.
PanDelta(c, f, p, m, w) ==
  [ x |-> -PanAmount(p[1] - m.x, w[1], f.right - f.left, c.zoom),
    y |-> PanAmount(p[2] - m.y, w[2], f.top - f.bottom, c.zoom) ]

\* A drag move that only moves the target and leaves the camera to the
\* smoothing of the next frames.
applyPanSmoothed(c, pan) ==
  [ c EXCEPT
      !.targetPosition = [ x |-> c.position.x + pan.x, y |-> c.position.y + pan.y ],
      !.panVelocity    = pan ]

\* onMouseMove while a drag is active, panX and panY being pan: the camera
\* and its target move at once, and the pan is kept as panVelocity.
applyPan(c, pan) ==
  [ c EXCEPT
      !.position       = [ x |-> c.position.x + pan.x, y |-> c.position.y + pan.y ],
      !.targetPosition = [ x |-> c.position.x + pan.x, y |-> c.position.y + pan.y ],
      !.panVelocity    = pan ]

\* onMouseMove while a drag is active.
onMouseMove(c, f, p, m, w) == applyPan(c, PanDelta(c, f, p, m, w))

\* --------------------------------------------------------- the frame tick

\* updateZoom without the minZoom floor on targetZoom and on camera.zoom.
updateZoomNoFloor(c) ==
  LET moving == Abs(c.zoomVelocity) > ZoomEpsilon
      tz     == IF moving THEN c.targetZoom + c.zoomVelocity ELSE c.targetZoom
      zv     == IF moving THEN Scaled(c.zoomVelocity, CONFIG.zoomDamping) ELSE 0
  IN  [ c EXCEPT
          !.targetZoom   = tz,
          !.zoomVelocity = zv,
          !.zoom         = @ + Scaled(tz - @, BlendFraction),
          !.position     =
            [ x |-> @.x + Scaled(c.targetPosition.x - @.x, BlendFraction),
              y |-> @.y + Scaled(c.targetPosition.y - @.y, BlendFraction) ] ]

\* updateZoom with the minZoom floor on camera.zoom only, not on targetZoom.
updateZoomNoTargetFloor(c) ==
  LET moving == Abs(c.zoomVelocity) > ZoomEpsilon
      tz     == IF moving THEN c.targetZoom + c.zoomVelocity ELSE c.targetZoom
      zv     == IF moving THEN Scaled(c.zoomVelocity, CONFIG.zoomDamping) ELSE 0
  IN  [ c EXCEPT
          !.targetZoom   = tz,
          !.zoomVelocity = zv,
          !.zoom         = Max(CONFIG.minZoom, @ + Scaled(tz - @, BlendFraction)),
          !.position     =
            [ x |-> @.x + Scaled(c.targetPosition.x - @.x, BlendFraction),
              y |-> @.y + Scaled(c.targetPosition.y - @.y, BlendFraction) ] ]

\* updateZoom clamping targetZoom at minZoom without zeroing zoomVelocity.
updateZoomKeepsVelocity(c) ==
  LET moving == Abs(c.zoomVelocity) > ZoomEpsilon
      tz     == IF moving THEN Max(CONFIG.minZoom, c.targetZoom + c.zoomVelocity)
                ELSE c.targetZoom
      zv     == IF moving THEN Scaled(c.zoomVelocity, CONFIG.zoomDamping) ELSE 0
  IN  [ c EXCEPT
          !.targetZoom   = tz,
          !.zoomVelocity = zv,
          !.zoom         = Max(CONFIG.minZoom, @ + Scaled(tz - @, BlendFraction)),
          !.position     =
            [ x |-> @.x + Scaled(c.targetPosition.x - @.x, BlendFraction),
              y |-> @.y + Scaled(c.targetPosition.y - @.y, BlendFraction) ] ]

\* updateZoom without the damping of zoomVelocity.
updateZoomNoDamping(c) ==
  LET moving == Abs(c.zoomVelocity) > ZoomEpsilon
      sum    == c.targetZoom + c.zoomVelocity
      hit    == moving /\ sum < CONFIG.minZoom
      tz     == IF ~moving THEN c.targetZoom
                ELSE IF hit THEN CONFIG.minZoom ELSE sum
      zv     == IF ~moving \/ hit THEN 0 ELSE c.zoomVelocity
      z      == c.zoom + Scaled(tz - c.zoom, BlendFraction)
  IN  [ c EXCEPT
          !.targetZoom   = tz,
          !.zoomVelocity = zv,
          !.zoom         = Max(CONFIG.minZoom, z),
          !.position     =
            [ x |-> @.x + Scaled(c.targetPosition.x - @.x, BlendFraction),
              y |-> @.y + Scaled(c.targetPosition.y - @.y, BlendFraction) ] ]

\* updateZoom: momentum zoom, then the blend of zoom and position toward
\* their targets, zoom clamped at minZoom.
updateZoom(c) ==
  LET moving == Abs(c.zoomVelocity) > ZoomEpsilon
      sum    == c.targetZoom + c.zoomVelocity
      hit    == moving /\ sum < CONFIG.minZoom
      tz     == IF ~moving THEN c.targetZoom
                ELSE IF hit THEN CONFIG.minZoom ELSE sum
      zv     == IF ~moving THEN 0
                ELSE Scaled(IF hit THEN 0 ELSE c.zoomVelocity, CONFIG.zoomDamping)
      z      == c.zoom + Scaled(tz - c.zoom, BlendFraction)
  IN  [ c EXCEPT
          !.targetZoom   = tz,
          !.zoomVelocity = zv,
          !.zoom         = Max(CONFIG.minZoom, z),
          !.position     =
            [ x |-> @.x + Scaled(c.targetPosition.x - @.x, BlendFraction),
              y |-> @.y + Scaled(c.targetPosition.y - @.y, BlendFraction) ] ]

\* updatePan without the damping of panVelocity.
updatePanNoDamping(c, dragging) ==
  IF ~dragging /\ (Abs(c.panVelocity.x) > PanEpsilon \/ Abs(c.panVelocity.y) > PanEpsilon)
  THEN [ c EXCEPT
           !.targetPosition = [ x |-> @.x + c.panVelocity.x, y |-> @.y + c.panVelocity.y ] ]
  ELSE IF ~dragging
  THEN [ c EXCEPT !.panVelocity = [x |-> 0, y |-> 0] ]
  ELSE c

\* updatePan zeroing panVelocity whenever the momentum branch is not taken,
\* during a drag as well.
updatePanZeroInDrag(c, dragging) ==
  IF ~dragging /\ (Abs(c.panVelocity.x) > PanEpsilon \/ Abs(c.panVelocity.y) > PanEpsilon)
  THEN [ c EXCEPT
           !.targetPosition = [ x |-> @.x + c.panVelocity.x, y |-> @.y + c.panVelocity.y ],
           !.panVelocity    = [ x |-> Scaled(@.x, CONFIG.panDamping),
                                y |-> Scaled(@.y, CONFIG.panDamping) ] ]
  ELSE [ c EXCEPT !.panVelocity = [x |-> 0, y |-> 0] ]

\* updatePan: pan momentum after a drag.
updatePan(c, dragging) ==
  IF ~dragging /\ (Abs(c.panVelocity.x) > PanEpsilon \/ Abs(c.panVelocity.y) > PanEpsilon)
  THEN [ c EXCEPT
           !.targetPosition = [ x |-> @.x + c.panVelocity.x, y |-> @.y + c.panVelocity.y ],
           !.panVelocity    = [ x |-> Scaled(@.x, CONFIG.panDamping),
                                y |-> Scaled(@.y, CONFIG.panDamping) ] ]
  ELSE IF ~dragging
  THEN [ c EXCEPT !.panVelocity = [x |-> 0, y |-> 0] ]
  ELSE c

\* A smoothing that overshoots its target: x += (target - x) * 1.1.
SmoothedOvershoot(x, target) == x + Scaled(target - x, SCALE + SmoothingFactor)

\* x += (target - x) * 0.1, the smoothing of both auto-navigation steps.
Smoothed(x, target) == x + Scaled(target - x, SmoothingFactor)

\* The distance from the plane's centre at which the edge force sets in along
\* an axis: half the plane's size (planeSize, in units of SCALE) less the
\* threshold's share of the visible extent, extent / zoom (maxX, maxY; minX and
\* minY are their negatives).
EdgeLimit(planeSize, extent, zoom) ==
  ToFine(Div(planeSize, 2)) - Scaled(DivFine(extent, zoom), CONFIG.autoMovementEdgeThreshold)

\* One component v of the drift after the edge force at camera coordinate pos
\* on an axis whose limits are -limit and limit.
EdgeForce(v, pos, limit) ==
  (IF pos > limit
   THEN v - Scaled(pos - limit, CONFIG.autoMovementEdgeForce * 2)
   ELSE v)
  + (IF pos < -limit
     THEN Scaled((-limit) - pos, CONFIG.autoMovementEdgeForce * 2)
     ELSE 0)

\* The vector (x, y) divided by its length len when that is positive.
NormalizedBy(x, y, len) ==
  IF len > 0 THEN [ x |-> DivFine(x, len), y |-> DivFine(y, len) ]
  ELSE [ x |-> x, y |-> y ]

\* The normalization of autoMovementVector.
Normalized(x, y) == NormalizedBy(x, y, Length(x, y))

\* The end of updateAutoMovement: the drift v is stored and added, scaled,
\* to targetPosition; target is the target vector the step settled on and
\* scaledSpeed is autoMovementSpeed / zoom.
applyDrift(c, a, target, v, scaledSpeed) ==
  [ cam  |-> [ c EXCEPT !.targetPosition =
                 [ x |-> @.x + MulFine(v.x, scaledSpeed),
                   y |-> @.y + MulFine(v.y, scaledSpeed) ] ],
    auto |-> [ a EXCEPT !.targetAutoMovementVector = target, !.autoMovementVector = v ] ]

\* The target vector after the random change of direction, if any.
DriftTarget(a, change, d) ==
  IF change THEN [x |-> d[1], y |-> d[2]] ELSE a.targetAutoMovementVector

\* updateAutoMovement: the drift vectors and the camera state after the step.
\* change is the outcome of Math.random() < autoMovementChangeRate and d the
\* direction of the new random angle.
updateAutoMovement(c, a, f, planeWidth, enabled, dragging, change, d) ==
  IF ~enabled \/ dragging THEN [ cam |-> c, auto |-> a ]
  ELSE
    applyDrift(c, a, DriftTarget(a, change, d),
      Normalized(
        EdgeForce(Smoothed(a.autoMovementVector.x, DriftTarget(a, change, d).x),
                  c.position.x, EdgeLimit(planeWidth, f.right - f.left, c.zoom)),
        EdgeForce(Smoothed(a.autoMovementVector.y, DriftTarget(a, change, d).y),
                  c.position.y, EdgeLimit(CONFIG.planeHeight, f.top - f.bottom, c.zoom))),
      DivFine(CONFIG.autoMovementSpeed, c.zoom))

\* targetAutoZoomDirection after the random flip, if any.
ZoomTarget(a, flip) ==
  IF flip THEN -a.targetAutoZoomDirection ELSE a.targetAutoZoomDirection

\* zoomVariability of updateAutoZoom at Date.now() = t (milliseconds):
\* 1 + Math.sin(t * 0.001) * autoZoomSpeedVariability.
ZoomVariability(t) ==
  PANSCALE + Scaled(Sin(t * (PANSCALE \div 1000)), CONFIG.autoZoomSpeedVariability)

\* variableZoomSpeed of updateAutoZoom at Date.now() = t, last being
\* lastAutoZoomTime (milliseconds): autoZoomSpeed * zoomVariability / zoom *
\* timeDelta * 60.  The factors are multiplied first (autoZoomSpeed * 60 *
\* timeDelta exactly) and the division by the zoom comes last.
ZoomSpeed(zoom, last, t) ==
  DivFine(MulFine(ZoomVariability(t),
                  Prorated(CONFIG.autoZoomSpeed * 60, t - last, 1000)),
          zoom)

\* The end of updateAutoZoom without the final clamp of targetZoom.
applyAutoZoomNoClamp(c, a, target, dir, velocity, t) ==
  [ cam  |-> [ c EXCEPT !.targetZoom = @ + velocity ],
    auto |-> [ a EXCEPT
                 !.targetAutoZoomDirection =
                   IF \/ c.zoom >= CONFIG.autoZoomMaxLevel /\ dir > 0
                      \/ c.zoom <= CONFIG.autoZoomMinLevel /\ dir < 0
                   THEN -target ELSE target,
                 !.autoZoomDirection = dir,
                 !.autoZoomVelocity = velocity,
                 !.lastAutoZoomTime = t ] ]

\* The end of updateAutoZoom without the bound check.
applyAutoZoomNoBoundCheck(c, a, target, dir, velocity, t) ==
  [ cam  |-> [ c EXCEPT !.targetZoom =
                 Max(CONFIG.autoZoomMinLevel, Min(CONFIG.autoZoomMaxLevel, @ + velocity)) ],
    auto |-> [ a EXCEPT
                 !.targetAutoZoomDirection = target,
                 !.autoZoomDirection = dir,
                 !.autoZoomVelocity = velocity,
                 !.lastAutoZoomTime = t ] ]

\* The end of updateAutoZoom with a bound check that looks at the zoom level
\* only, not at the direction.
applyAutoZoomFlipsAtBound(c, a, target, dir, velocity, t) ==
  [ cam  |-> [ c EXCEPT !.targetZoom =
                 Max(CONFIG.autoZoomMinLevel, Min(CONFIG.autoZoomMaxLevel, @ + velocity)) ],
    auto |-> [ a EXCEPT
                 !.targetAutoZoomDirection =
                   IF c.zoom >= CONFIG.autoZoomMaxLevel \/ c.zoom <= CONFIG.autoZoomMinLevel
                   THEN -target ELSE target,
                 !.autoZoomDirection = dir,
                 !.autoZoomVelocity = velocity,
                 !.lastAutoZoomTime = t ] ]

\* The end of updateAutoZoom: target is the target direction after the flip,
\* dir the smoothed direction and velocity the step's zoom velocity.
applyAutoZoom(c, a, target, dir, velocity, t) ==
  [ cam  |-> [ c EXCEPT !.targetZoom =
                 Max(CONFIG.autoZoomMinLevel, Min(CONFIG.autoZoomMaxLevel, @ + velocity)) ],
    auto |-> [ a EXCEPT
                 !.targetAutoZoomDirection =
                   IF \/ (c.zoom >= CONFIG.autoZoomMaxLevel /\ dir > 0)
                      \/ (c.zoom <= CONFIG.autoZoomMinLevel /\ dir < 0)
                   THEN -target ELSE target,
                 !.autoZoomDirection = dir,
                 !.autoZoomVelocity = velocity,
                 !.lastAutoZoomTime = t ] ]

\* The body of updateAutoZoom past its guard, dir being the smoothed direction.
autoZoomStep(c, a, dir, flip, t) ==
  applyAutoZoom(c, a, ZoomTarget(a, flip), dir,
                MulFine(dir, ZoomSpeed(c.zoom, a.lastAutoZoomTime, t)), t)

\* updateAutoZoom returning early only when the flag is off, not during a drag.
updateAutoZoomInDrag(c, a, enabled, dragging, flip, t) ==
  IF ~enabled THEN [ cam |-> c, auto |-> a ]
  ELSE autoZoomStep(c, a, Smoothed(a.autoZoomDirection, ZoomTarget(a, flip)), flip, t)

\* updateAutoZoom returning early only during a drag, whatever the flag says.
updateAutoZoomIgnoresFlag(c, a, enabled, dragging, flip, t) ==
  IF dragging THEN [ cam |-> c, auto |-> a ]
  ELSE autoZoomStep(c, a, Smoothed(a.autoZoomDirection, ZoomTarget(a, flip)), flip, t)

\* updateAutoZoom at Date.now() = t.  flip is the outcome of
\* Math.random() < autoZoomChangeRate.
updateAutoZoom(c, a, enabled, dragging, flip, t) ==
  IF ~enabled \/ dragging THEN [ cam |-> c, auto |-> a ]
  ELSE autoZoomStep(c, a, Smoothed(a.autoZoomDirection, ZoomTarget(a, flip)), flip, t)

\* enforceCameraOrientation: pinned depth, looking straight at the plane.
enforceCameraOrientation(c) ==
  [ z |-> CONFIG.cameraZ, lookAt |-> [x |-> c.position.x, y |-> c.position.y] ]

\* boostFactor of animate.
BoostFactor(zoom) ==
  LET boostStart == CONFIG.brightnessBoostStartZoom
      boostEnd   == CONFIG.maxZoomForSizeTransition
  IN  IF zoom > boostStart
      THEN Min(SCALE, Quot(zoom - boostStart, boostEnd - boostStart))
      ELSE 0

\* uniforms.brightnessBoost as animate writes it at the zoom level zoom.
FrameBoost(zoom) ==
  IF CONFIG.brightnessBoostEnabled
  THEN Mul(CONFIG.brightnessBoost, BoostFactor(ToCoarse(zoom)))
  ELSE 0

\* The uniform push drawing another seed on every frame.
pushUniformsReseed(u, c, w) ==
  [ u EXCEPT
      !.seed                  = IF @ = Fp(7, 1) THEN Fp(4321, 100) ELSE Fp(7, 1),
      !.cameraZoom            = ToCoarse(c.zoom),
      !.screenWidth           = w[1],
      !.screenHeight          = w[2],
      !.displacementStartZoom = CONFIG.displacementStartZoom,
      !.displacementFullZoom  = CONFIG.displacementFullZoom,
      !.time                  = @ + TimeStep,
      !.brightnessBoost       = FrameBoost(c.zoom) ]

\* The uniform push of animate ("Update shader uniforms for LOD").
pushUniforms(u, c, w) ==
  [ u EXCEPT
      !.cameraZoom            = ToCoarse(c.zoom),
      !.screenWidth           = w[1],
      !.screenHeight          = w[2],
      !.displacementStartZoom = CONFIG.displacementStartZoom,
      !.displacementFullZoom  = CONFIG.displacementFullZoom,
      !.time                  = @ + TimeStep,
      !.brightnessBoost       = FrameBoost(c.zoom) ]

\* The overlay fade running the wrong way: 0 at startFade, 1 at endFade.
updateOverlayInverted(zoom) ==
  LET startFade == CONFIG.texturePlaneFadeStartZoom
      endFade   == CONFIG.texturePlaneFadeEndZoom
      opacity   == Quot(zoom - startFade, endFade - startFade)
      clamped   == Max(0, Min(SCALE, opacity))
  IN  IF zoom < startFade THEN [ opacity |-> SCALE, visible |-> TRUE ]
      ELSE IF zoom > endFade THEN [ opacity |-> 0, visible |-> FALSE ]
      ELSE [ opacity |-> clamped, visible |-> clamped > Fp(1, 1000) ]

\* The overlay plane's opacity and visibility, as animate sets them.
updateOverlay(zoom) ==
  LET startFade == CONFIG.texturePlaneFadeStartZoom
      endFade   == CONFIG.texturePlaneFadeEndZoom
      opacity   == SCALE - Quot(zoom - startFade, endFade - startFade)
      clamped   == Max(0, Min(SCALE, opacity))
  IN  IF zoom < startFade THEN [ opacity |-> SCALE, visible |-> TRUE ]
      ELSE IF zoom > endFade THEN [ opacity |-> 0, visible |-> FALSE ]
      ELSE [ opacity |-> clamped, visible |-> clamped > Fp(1, 1000) ]

\* The zoom counter's displacementFactor measured from zoomThreshold, the
\* start of the size transition, instead of displacementStartZoom.
hudDisplacementFactorFromThreshold(zoom) ==
  Min(SCALE, Max(0, Quot(zoom - CONFIG.zoomThreshold,
                         CONFIG.displacementFullZoom - CONFIG.zoomThreshold)))

\* displacementFactor of animate (the zoom counter):
\* Math.min(1, Math.max(0, (zoom - start) / (full - start))).
hudDisplacementFactor(zoom) ==
  Min(SCALE, Max(0, Quot(zoom - CONFIG.displacementStartZoom,
                         CONFIG.displacementFullZoom - CONFIG.displacementStartZoom)))

\* zoomFactor of animate (the zoom counter).
hudZoomFactor(zoom) ==
  Min(SCALE, Max(0, Quot(zoom - CONFIG.zoomThreshold,
                         CONFIG.maxZoomForSizeTransition - CONFIG.zoomThreshold)))

updateHud(zoom) ==
  [ zoomFactor |-> hudZoomFactor(zoom), displacementFactor |-> hudDisplacementFactor(zoom) ]

\* ------------------------------------------------------- the vertex shader

\* pointId = random(vUv) of the vertex shader,
\* fract(sin(dot(st, vec2(12.9898, 78.233)) + seed) * 43758.5453123), for the
\* sample points of the 480 x 400 image (uv at the texel centre, stored as a
\* 32-bit float) under the seeds 7 and 43.21 (the seed uniform is passed as a
\* 32-bit float in either case), in units of 1/SCALE.  The factor 43758 turns
\* the rounding of the sine's argument into the leading digits of the result,
\* so the value is a property of the float arithmetic and not of the formula:
\* it is tabulated per precision of the shader's own arithmetic.
PointIds ==
  [ single |->
      ( Fp(7, 1) :> ( << 0, 0 >> :> 7343 @@ << 240, 200 >> :> 8261
                      @@ << 17, 333 >> :> 1835 @@ << 479, 399 >> :> 9843 )
        @@ Fp(4321, 100) :> ( << 0, 0 >> :> 1152 @@ << 240, 200 >> :> 4726
                              @@ << 17, 333 >> :> 3632 @@ << 479, 399 >> :> 8613 ) ),
    double |->
      ( Fp(7, 1) :> ( << 0, 0 >> :> 7294 @@ << 240, 200 >> :> 8446
                      @@ << 17, 333 >> :> 3645 @@ << 479, 399 >> :> 1518 )
        @@ Fp(4321, 100) :> ( << 0, 0 >> :> 1797 @@ << 240, 200 >> :> 4560
                              @@ << 17, 333 >> :> 4646 @@ << 479, 399 >> :> 7786 ) ) ]

\* random(vUv) for the sample point q under the uniforms u.
random(q, u) == PointIds[u.precision][u.seed][q]

\* The integer part of a fixed-point value times a plain integer n <= 200000.
PixelCount(a, n) == (a \div SCALE) * n + (((a % SCALE) * n) \div SCALE)

\* The fixed-point value of a / b for plain integers a >= 0 and 0 < b <= 200000.
Ratio(a, b) == (a \div b) * SCALE + (((a % b) * SCALE) \div b)

\* visiblePixels of the vertex shader, in whole pixels:
\* planeWidth * planeHeight * zoom^2 * screenWidth * screenHeight / 4.  The
\* quarter is taken of the screen's pixel count, so that the product stays
\* inside machine integers up to zoom 120.
visiblePixels(u) ==
  PixelCount(Mul(Mul(u.planeWidth, u.planeHeight), Mul(u.cameraZoom, u.cameraZoom)),
             (u.screenWidth * u.screenHeight) \div 4)
  + (PixelCount(Mul(Mul(u.planeWidth, u.planeHeight), Mul(u.cameraZoom, u.cameraZoom)),
                (u.screenWidth * u.screenHeight) % 4) \div 4)

\* totalPoints of the vertex shader.
totalPoints(u) == u.imageWidth * u.imageHeight

\* samplingRate without the min(1.0, .) clamp.
samplingRateUnclamped(u) == Ratio(visiblePixels(u), totalPoints(u))

\* samplingRate of the vertex shader: min(1.0, visiblePixels / totalPoints).
samplingRate(u) == Min(SCALE, Ratio(visiblePixels(u), totalPoints(u)))

\* The shader's discard test: a sample is drawn unless pointId > samplingRate.
pointVisible(q, u) == ~(random(q, u) > samplingRate(u))

\* displacementFactor of the vertex shader: clamp(x, 0.0, 1.0).
displacementFactor(u) ==
  Min(Max(Quot(u.cameraZoom - u.displacementStartZoom,
               u.displacementFullZoom - u.displacementStartZoom), 0), SCALE)

\* renderer.render: the vertex shader's results under the uniforms u.
render(u) ==
  [ samplingRate       |-> samplingRate(u),
    visible            |-> { q \in SamplePoints : pointVisible(q, u) },
    displacementFactor |-> displacementFactor(u),
    cameraZoom         |-> u.cameraZoom,
    screenWidth        |-> u.screenWidth,
    screenHeight       |-> u.screenHeight,
    time               |-> u.time ]

\* ------------------------------------------------------------- animate

\* animate with the uniform push after the draw.
animateStepsLatePush ==
  << "updateZoom", "updatePan", "updateAutoMovement", "updateAutoZoom",
     "enforceCameraOrientation", "updateOverlay", "updateHud", "render", "pushUniforms" >>

\* The statements of animate, in program order.
animateSteps ==
  << "updateZoom", "updatePan", "updateAutoMovement", "updateAutoZoom",
     "enforceCameraOrientation", "pushUniforms", "updateOverlay", "updateHud", "render" >>

\* One statement of animate on the frame's working state st.  in holds what
\* the frame reads but does not write: the flags, the drag flag, the window,
\* the frustum, the plane width, the random outcomes and the clock.
animateStep(name, st, in) ==
  CASE name = "updateZoom" -> [ st EXCEPT !.cam = updateZoom(st.cam) ]
    [] name = "updatePan" -> [ st EXCEPT !.cam = updatePan(st.cam, in.dragging) ]
    [] name = "updateAutoMovement" ->
         LET r == updateAutoMovement(st.cam, st.auto, in.frustum, in.planeWidth,
                                     in.cfg.autoMovementEnabled, in.dragging,
                                     in.change, in.d)
         IN  [ st EXCEPT !.cam = r.cam, !.auto = r.auto ]
    [] name = "updateAutoZoom" ->
         LET r == updateAutoZoom(st.cam, st.auto, in.cfg.autoZoomEnabled, in.dragging,
                                 in.flip, in.now)
         IN  [ st EXCEPT !.cam = r.cam, !.auto = r.auto ]
    [] name = "enforceCameraOrientation" ->
         [ st EXCEPT !.orient = enforceCameraOrientation(st.cam) ]
    [] name = "pushUniforms" -> [ st EXCEPT !.uni = pushUniforms(st.uni, st.cam, in.win) ]
    [] name = "updateOverlay" ->
         [ st EXCEPT !.plane = updateOverlay(ToCoarse(st.cam.zoom)) ]
    [] name = "updateHud" -> [ st EXCEPT !.hud = updateHud(ToCoarse(st.cam.zoom)) ]
    [] name = "render" -> [ st EXCEPT !.drawn = render(st.uni) ]

\* The working states of one run of animate: element i is the state after
\* the first i - 1 statements of steps, so the last element is the result.
RECURSIVE runSteps(_, _, _)
runSteps(names, st, in) ==
  IF names = << >> THEN << st >>
  ELSE << st >> \o runSteps(Tail(names), animateStep(Head(names), st, in), in)

\* The record of a frame kept in log: each statement run, with the drag flag
\* and enable flags it saw and the camera and auto-navigation state before and
\* after it.
frameLog(names, states, in) ==
  [ i \in 1..Len(names) |->
      [ step |-> names[i], dragging |-> in.dragging, cfg |-> in.cfg,
        camBefore |-> states[i].cam, camAfter |-> states[i + 1].cam,
        autoBefore |-> states[i].auto, autoAfter |-> states[i + 1].auto ] ]

\* The result of a frame whose working states were states: the state it
\* leaves and the frame's log.
frameOf(states, in) ==
  [ end |-> states[Len(states)], log |-> frameLog(animateSteps, states, in) ]

\* animate() on the working state st.
animate(st, in) == frameOf(runSteps(animateSteps, st, in), in)

\* What a frame reads: flags, drag flag, window, frustum, plane width, the
\* outcomes of Math.random() and Date.now().
FrameInput(planeWidth, t, d, flip) ==
  [ cfg |-> cfg, dragging |-> isDragging, win |-> win, frustum |-> frustum,
    planeWidth |-> planeWidth, change |-> d # NoChange, d |-> d, flip |-> flip,
    now |-> t ]

\* The variables a frame writes, from the result r of animate.
FrameResult(r) ==
  /\ cam' = r.end.cam
  /\ auto' = r.end.auto
  /\ orient' = r.end.orient
  /\ uni' = r.end.uni
  /\ plane' = r.end.plane
  /\ hud' = r.end.hud
  /\ drawn' = r.end.drawn
  /\ log' = r.log

\* ----------------------------------------------------------------- actions

\* The TextureLoader's success callback, delay milliseconds after init: the
\* point mesh with its uniforms and the overlay plane are created, and
\* animate() is called for the first frame.
LoadSuccess(size, seed, pr, delay, d, flip) ==
  LET planeWidth == Mul(CONFIG.planeHeight, Fp(size[1], size[2]))
      uniforms ==
        [ seed |-> seed, precision |-> pr, cameraZoom |-> ToCoarse(cam.zoom),
          screenWidth |-> win[1], screenHeight |-> win[2],
          imageWidth |-> size[1], imageHeight |-> size[2],
          planeWidth |-> planeWidth, planeHeight |-> CONFIG.planeHeight,
          displacementStartZoom |-> CONFIG.displacementStartZoom,
          displacementFullZoom |-> CONFIG.displacementFullZoom,
          time |-> 0, brightnessBoost |-> CONFIG.brightnessBoost ]
      st == [ cam |-> cam, auto |-> auto, orient |-> orient, uni |-> uniforms,
              plane |-> [ opacity |-> SCALE, visible |-> TRUE ],
              hud |-> hud, drawn |-> drawn ]
      t == now + delay
  IN  /\ load = "pending"
      /\ steps < MaxSteps
      /\ steps' = steps + 1
      /\ load' = "loaded"
      /\ img' = [ width |-> size[1], height |-> size[2], planeWidth |-> planeWidth ]
      /\ now' = t
      /\ FrameResult(animate(st, FrameInput(planeWidth, t, d, flip)))
      /\ UNCHANGED << cfg, isDragging, lastMouse, win, frustum >>

\* The ticks of a frame, without the uniform push and the draw.
tickSteps ==
  << "updateZoom", "updatePan", "updateAutoMovement", "updateAutoZoom",
     "enforceCameraOrientation" >>

\* An error callback that, after logging, starts the frame loop all the same:
\* with no mesh the frame runs its ticks and pushes and draws nothing.
LoadErrorStartsLoop ==
  /\ load = "pending"
  /\ steps < MaxSteps
  /\ steps' = steps + 1
  /\ load' = "failed"
  /\ \E states \in { runSteps(tickSteps,
                              [ cam |-> cam, auto |-> auto, orient |-> orient, uni |-> uni,
                                plane |-> plane, hud |-> hud, drawn |-> drawn ],
                              FrameInput(0, now, NoChange, FALSE)) } :
       /\ cam' = states[Len(states)].cam
       /\ auto' = states[Len(states)].auto
       /\ orient' = states[Len(states)].orient
       /\ log' = frameLog(tickSteps, states, FrameInput(0, now, NoChange, FALSE))
  /\ UNCHANGED << cfg, isDragging, lastMouse, win, frustum, now, img, uni, plane, hud,
                  drawn >>

\* The TextureLoader's error callback: console.error, nothing else.
LoadError ==
  /\ load = "pending"
  /\ steps < MaxSteps
  /\ steps' = steps + 1
  /\ load' = "failed"
  /\ UNCHANGED << cfg, cam, isDragging, lastMouse, win, frustum, orient, auto, now,
                  img, uni, plane, hud, drawn, log >>

\* requestAnimationFrame's callback: animate(), dt milliseconds after the
\* previous frame.
Animate(dt, d, flip) ==
  LET st == [ cam |-> cam, auto |-> auto, orient |-> orient, uni |-> uni,
              plane |-> plane, hud |-> hud, drawn |-> drawn ]
      t == now + dt
  IN  /\ load = "loaded"
      /\ steps < MaxSteps
      /\ steps' = steps + 1
      /\ now' = t
      /\ FrameResult(animate(st, FrameInput(img.planeWidth, t, d, flip)))
      /\ UNCHANGED << cfg, isDragging, lastMouse, win, frustum, load, img >>

\* A wheel event with deltaY dy at pointer p.
Wheel(p, dy) ==
  /\ steps < MaxSteps
  /\ steps' = steps + 1
  /\ cam' = onWheel(cam, frustum, p, win, dy)
  /\ UNCHANGED << cfg, isDragging, lastMouse, win, frustum, orient, auto, now, load,
                  img, uni, plane, hud, drawn, log >>

\* A mousedown event at pointer p.
MouseDown(p) ==
  /\ steps < MaxSteps
  /\ steps' = steps + 1
  /\ isDragging' = TRUE
  /\ lastMouse' = [x |-> p[1], y |-> p[2]]
  /\ cam' = onMouseDown(cam)
  /\ UNCHANGED << cfg, win, frustum, orient, auto, now, load, img, uni, plane, hud,
                  drawn, log >>

\* A mouseup event.
MouseUp ==
  /\ steps < MaxSteps
  /\ steps' = steps + 1
  /\ isDragging' = FALSE
  /\ UNCHANGED << cfg, cam, lastMouse, win, frustum, orient, auto, now, load, img, uni,
                  plane, hud, drawn, log >>

\* A mousemove event at pointer p: returns at once unless a drag is active.
MouseMove(p) ==
  /\ steps < MaxSteps
  /\ steps' = steps + 1
  /\ IF isDragging
     THEN /\ cam' = onMouseMove(cam, frustum, p, lastMouse, win)
          /\ lastMouse' = [x |-> p[1], y |-> p[2]]
     ELSE UNCHANGED << cam, lastMouse >>
  /\ UNCHANGED << cfg, isDragging, win, frustum, orient, auto, now, load, img, uni,
                  plane, hud, drawn, log >>

\* onResize updating the renderer and the uniforms but not the camera bounds.
ResizeKeepsFrustum(w) ==
  /\ w # win
  /\ steps < MaxSteps
  /\ steps' = steps + 1
  /\ win' = w
  /\ uni' = IF load = "loaded"
            THEN [ uni EXCEPT !.screenWidth = w[1], !.screenHeight = w[2] ]
            ELSE uni
  /\ UNCHANGED << cfg, cam, isDragging, lastMouse, frustum, orient, auto, now, load, img,
                  plane, hud, drawn, log >>

\* The window is resized to w and the resize event runs onResize.
Resize(w) ==
  /\ w # win
  /\ steps < MaxSteps
  /\ steps' = steps + 1
  /\ win' = w
  /\ frustum' = Frustum(w)
  /\ uni' = IF load = "loaded"
            THEN [ uni EXCEPT !.screenWidth = w[1], !.screenHeight = w[2] ]
            ELSE uni
  /\ UNCHANGED << cfg, cam, isDragging, lastMouse, orient, auto, now, load, img, plane,
                  hud, drawn, log >>

Session ==
  \/ \E dt \in FrameIntervals, d \in DirectionChanges, flip \in BOOLEAN :
       Animate(dt, d, flip)
  \/ \E p \in Pointers(win[1], win[2]), dy \in WheelDeltas : Wheel(p, dy)
  \/ \E p \in Pointers(win[1], win[2]) : MouseDown(p)
  \/ MouseUp
  \/ \E p \in Pointers(win[1], win[2]) : MouseMove(p)
  \/ \E w \in WindowSizes : Resize(w)

\* Any callback the browser may run next: the loader's, or one of the session.
Next ==
  \/ \E size \in ImageSizes, seed \in Seeds, pr \in Precisions, delay \in LoadDelays,
        d \in DirectionChanges, flip \in BOOLEAN :
       LoadSuccess(size, seed, pr, delay, d, flip)
  \/ LoadError
  \/ Session

Spec == Init /\ [][Next]_vars

\* ------------------------------------------------- mid-session start states

\* The uniforms as the frame that drew the zoom level zoom has left them: the
\* material's uniforms of createPointCloud with animate's per-frame writes.
FrameUniforms(seed, pr, zoom, w, size) ==
  [ seed |-> seed, precision |-> pr, cameraZoom |-> ToCoarse(zoom),
    screenWidth |-> w[1], screenHeight |-> w[2],
    imageWidth |-> size[1], imageHeight |-> size[2],
    planeWidth |-> Mul(CONFIG.planeHeight, Fp(size[1], size[2])),
    planeHeight |-> CONFIG.planeHeight,
    displacementStartZoom |-> CONFIG.displacementStartZoom,
    displacementFullZoom |-> CONFIG.displacementFullZoom,
    time |-> TimeStep, brightnessBoost |-> FrameBoost(zoom) ]

\* (camera.zoom, targetZoom) before the sampled frame: at rest on the
\* thresholds of the overlay fade, the displacement ramp, the brightness boost
\* and the auto-zoom bounds, and in motion near minZoom and between thresholds.
MidZooms ==
  { << Pp(1, 10), Pp(1, 10) >>, << Pp(12, 100), Pp(1, 10) >>, << Pp(1, 2), Pp(1, 2) >>,
    << Pp(1, 1), Pp(1, 1) >>, << Pp(4, 1), Pp(4, 1) >>, << Pp(5, 1), Pp(6, 1) >>,
    << Pp(8, 1), Pp(8, 1) >>, << Pp(12, 1), Pp(12, 1) >>, << Pp(13, 1), Pp(20, 1) >>,
    << Pp(80, 1), Pp(80, 1) >>, << Pp(90, 1), Pp(85, 1) >> }

\* zoomVelocity before the sampled frame: none, a burst of zoom-out wheel
\* events, one zoom-in wheel event at zoom 1.
MidVelocities == { 0, Pp(-3, 10), Pp(2, 100) }

\* (autoZoomDirection, targetAutoZoomDirection) before the sampled frame.
MidZoomDirections ==
  { << Pp(1, 1), Pp(1, 1) >>, << Pp(-1, 1), Pp(-1, 1) >>, << Pp(8, 10), Pp(-1, 1) >> }

\* A session under way: the image has loaded and a frame has just been drawn.
\* The frame ran from a sampled state the program can be in before a frame,
\* possibly in the middle of a drag, under any setting of the two enable flags.
InitMid ==
  \E zt \in MidZooms, v \in MidVelocities, drag \in BOOLEAN, zd \in MidZoomDirections,
     flags \in [ autoMovementEnabled : BOOLEAN, autoZoomEnabled : BOOLEAN ],
     size \in ImageSizes, seed \in Seeds, pr \in Precisions, t \in StartTimes :
    LET w == CHOOSE x \in WindowSizes : \A y \in WindowSizes : x[1] <= y[1]
        planeWidth == Mul(CONFIG.planeHeight, Fp(size[1], size[2]))
        c == [ zoom           |-> zt[1],
               targetZoom     |-> zt[2],
               zoomVelocity   |-> v,
               position       |-> [x |-> Pp(3, 10), y |-> Pp(-2, 10)],
               targetPosition |-> IF drag THEN [x |-> Pp(3, 10), y |-> Pp(-2, 10)]
                                  ELSE [x |-> Pp(5, 10), y |-> Pp(1, 10)],
               panVelocity    |-> [x |-> Pp(1, 100), y |-> Pp(-2, 100)] ]
        a == [ autoMovementVector       |-> [x |-> Pp(1, 1), y |-> 0],
               targetAutoMovementVector |-> [x |-> -7071068, y |-> -7071068],
               autoZoomDirection        |-> zd[1],
               targetAutoZoomDirection  |-> zd[2],
               autoZoomVelocity         |-> 0,
               lastAutoZoomTime         |-> t ]
        u == FrameUniforms(seed, pr, zt[1], w, size)
        st == [ cam |-> c, auto |-> a,
                orient |-> enforceCameraOrientation(c), uni |-> u,
                plane |-> updateOverlay(ToCoarse(zt[1])),
                hud |-> updateHud(ToCoarse(zt[1])),
                drawn |-> render(u) ]
        in == [ cfg |-> flags, dragging |-> drag, win |-> w, frustum |-> Frustum(w),
                planeWidth |-> planeWidth, change |-> FALSE, d |-> NoChange,
                flip |-> FALSE, now |-> t + 16 ]
    IN  \E r \in { animate(st, in) } :
          /\ cfg = flags
          /\ cam = r.end.cam
          /\ isDragging = drag
          /\ lastMouse = [x |-> w[1] \div 2, y |-> w[2] \div 2]
          /\ win = w
          /\ frustum = Frustum(w)
          /\ orient = r.end.orient
          /\ auto = r.end.auto
          /\ now = t + 16
          /\ load = "loaded"
          /\ img = [ width |-> size[1], height |-> size[2], planeWidth |-> planeWidth ]
          /\ uni = r.end.uni
          /\ plane = r.end.plane
          /\ hud = r.end.hud
          /\ drawn = r.end.drawn
          /\ log = r.log
          /\ steps = 2

\* After the load only the session's callbacks remain.
SpecMid == InitMid /\ [][Session]_vars


\* ------------------------------------------------ the end-to-end zoom scenario

\* Zoom levels the scenario starts from, at rest.
ScenarioZooms == { Pp(1, 1), Pp(5, 2) }

\* The single impulse given to zoomVelocity: one or two wheel steps at zoom 1.
ScenarioImpulses == { Pp(2, 100), Pp(5, 100) }

\* The camera at rest at a zoom level z0, as the last frame drew it, with one
\* impulse in zoomVelocity and no other input pending.
InitZoom ==
  \E z0 \in ScenarioZooms, v \in ScenarioImpulses, w \in WindowSizes,
     size \in ImageSizes, seed \in Seeds, pr \in Precisions,
     t \in StartTimes :
    LET planeWidth == Mul(CONFIG.planeHeight, Fp(size[1], size[2]))
        c == [ setupCamera EXCEPT !.zoom = z0, !.targetZoom = z0 ]
        u == FrameUniforms(seed, pr, z0, w, size)
    IN  /\ cfg = [ autoMovementEnabled |-> FALSE, autoZoomEnabled |-> FALSE ]
        /\ cam = [ c EXCEPT !.zoomVelocity = v ]
        /\ isDragging = FALSE
        /\ lastMouse = [x |-> 0, y |-> 0]
        /\ win = w
        /\ frustum = Frustum(w)
        /\ orient = enforceCameraOrientation(c)
        /\ auto = initializeAuto(<< Pp(1, 1), 0 >>, TRUE, t)
        /\ now = t
        /\ load = "loaded"
        /\ img = [ width |-> size[1], height |-> size[2], planeWidth |-> planeWidth ]
        /\ uni = u
        /\ plane = updateOverlay(ToCoarse(z0))
        /\ hud = updateHud(ToCoarse(z0))
        /\ drawn = render(u)
        /\ log = << >>
        /\ steps = 0

\* One zoom tick: updateZoom alone.
ZoomTick ==
  /\ steps < MaxTicks
  /\ steps' = steps + 1
  /\ cam' = updateZoom(cam)
  /\ UNCHANGED << cfg, isDragging, lastMouse, win, frustum, orient, auto, now, load,
                  img, uni, plane, hud, drawn, log >>

SpecZoom == InitZoom /\ [][ZoomTick]_vars

\* -------------------------------------------------------- the pan tick alone

\* panVelocity before the first pan tick: none, what a drag move leaves, a
\* velocity near the threshold, a fast pan along one axis.
PanVelocities ==
  { << 0, 0 >>, << Pp(1, 100), -Pp(2, 100) >>, << 0, Pp(3, 10000) >>, << -Pp(1, 2), 0 >> }

\* The camera drawn at rest at zoom 1 with a panVelocity, during a drag or
\* after one.
InitPan ==
  \E pv \in PanVelocities, drag \in BOOLEAN, w \in WindowSizes,
     size \in ImageSizes, seed \in Seeds, pr \in Precisions,
     t \in StartTimes :
    \E u \in { FrameUniforms(seed, pr, setupCamera.zoom, w, size) } :
      /\ cfg = [ autoMovementEnabled |-> FALSE, autoZoomEnabled |-> FALSE ]
      /\ cam = [ setupCamera EXCEPT !.panVelocity = [x |-> pv[1], y |-> pv[2]] ]
      /\ isDragging = drag
      /\ lastMouse = [x |-> w[1] \div 2, y |-> w[2] \div 2]
      /\ win = w
      /\ frustum = Frustum(w)
      /\ orient = enforceCameraOrientation(setupCamera)
      /\ auto = initializeAuto(<< Pp(1, 1), 0 >>, TRUE, t)
      /\ now = t
      /\ load = "loaded"
      /\ img = [ width |-> size[1], height |-> size[2], planeWidth |-> u.planeWidth ]
      /\ uni = u
      /\ plane = updateOverlay(ToCoarse(setupCamera.zoom))
      /\ hud = updateHud(ToCoarse(setupCamera.zoom))
      /\ drawn = render(u)
      /\ log = << >>
      /\ steps = 0

\* One pan tick: updatePan alone.
PanTick ==
  /\ steps < MaxTicks
  /\ steps' = steps + 1
  /\ cam' = updatePan(cam, isDragging)
  /\ UNCHANGED << cfg, isDragging, lastMouse, win, frustum, orient, auto, now, load,
                  img, uni, plane, hud, drawn, log >>

\* Pan ticks, and the mouse button released among the first of them.
SpecPan == InitPan /\ [][PanTick \/ MouseUp]_vars

\* ------------------------------------------- auto-navigation left to itself

\* (zoom, targetZoom) the unattended run starts from: at and beyond either
\* auto-zoom bound, and inside the range.
AutoZooms ==
  { << Pp(1, 1), Pp(1, 1) >>, << Pp(1, 2), Pp(1, 2) >>, << Pp(80, 1), Pp(80, 1) >>,
    << Pp(90, 1), Pp(85, 1) >>, << Pp(79, 1), Pp(80, 1) >>, << Pp(3, 1), Pp(3, 1) >> }

\* autoZoomDirection = targetAutoZoomDirection at the start: up or down.
AutoDirections == { Pp(1, 1), -Pp(1, 1) }

\* The image loaded and drawn, the camera at rest, both enable flags on as
\* shipped, nobody at the mouse.
InitAuto ==
  \E zt \in AutoZooms, zd \in AutoDirections, w \in WindowSizes,
     size \in ImageSizes, seed \in Seeds, pr \in Precisions,
     t \in StartTimes :
    \E u \in { FrameUniforms(seed, pr, zt[1], w, size) } :
      /\ cfg = [ autoMovementEnabled |-> TRUE, autoZoomEnabled |-> TRUE ]
      /\ cam = [ setupCamera EXCEPT !.zoom = zt[1], !.targetZoom = zt[2] ]
      /\ isDragging = FALSE
      /\ lastMouse = [x |-> 0, y |-> 0]
      /\ win = w
      /\ frustum = Frustum(w)
      /\ orient = enforceCameraOrientation(setupCamera)
      /\ auto = [ initializeAuto(<< Pp(1, 1), 0 >>, TRUE, t) EXCEPT
                    !.autoZoomDirection = zd, !.targetAutoZoomDirection = zd ]
      /\ now = t
      /\ load = "loaded"
      /\ img = [ width |-> size[1], height |-> size[2], planeWidth |-> u.planeWidth ]
      /\ uni = u
      /\ plane = updateOverlay(ToCoarse(zt[1]))
      /\ hud = updateHud(ToCoarse(zt[1]))
      /\ drawn = render(u)
      /\ log = << >>
      /\ steps = 0

\* One frame, dt milliseconds after the last, in which neither Math.random()
\* test of the auto-navigation succeeds.
AutoFrame(dt) ==
  /\ steps < MaxTicks
  /\ steps' = steps + 1
  /\ now' = now + dt
  /\ FrameResult(animate([ cam |-> cam, auto |-> auto, orient |-> orient, uni |-> uni,
                           plane |-> plane, hud |-> hud, drawn |-> drawn ],
                         FrameInput(img.planeWidth, now + dt, NoChange, FALSE)))
  /\ UNCHANGED << cfg, isDragging, lastMouse, win, frustum, load, img >>

\* Frames only; requestAnimationFrame keeps them coming.
NextAuto == \E dt \in FrameIntervals : AutoFrame(dt)

\* A frame is due: animate re-arms requestAnimationFrame at its end, so the
\* next frame always comes while the run lasts.  Every step of NextAuto is
\* such a step, and NextAuto is enabled exactly when one is.
FrameDue == steps < MaxTicks /\ steps' = steps + 1

SpecAuto == InitAuto /\ [][NextAuto]_vars /\ WF_steps(FrameDue)

\* ------------------------------------------------ momentum left to itself

\* (zoom, targetZoom) when the last input event has been handled: at minZoom,
\* at the start level, zoomed in with the blend still under way.
MomentumZooms == { << Pp(1, 10), Pp(1, 10) >>, << Pp(1, 1), Pp(1, 1) >>, << Pp(5, 1), Pp(6, 1) >> }

\* zoomVelocity the wheel has left: none, a zoom-out burst, zoom-in steps.
MomentumImpulses == { 0, -Pp(3, 10), Pp(5, 100) }

\* panVelocity the last drag move has left: none, a slow diagonal pan, a fast
\* pan along one axis.
MomentumPans == { << 0, 0 >>, << Pp(1, 100), -Pp(2, 100) >>, << -Pp(2, 10), 0 >> }

\* The image loaded and drawn, the button released, zoomVelocity and
\* panVelocity as the last events left them; the auto-navigation on or off.
InitMomentum ==
  \E zt \in MomentumZooms, v \in MomentumImpulses, pv \in MomentumPans,
     on \in BOOLEAN, w \in WindowSizes, size \in ImageSizes, seed \in Seeds,
     pr \in Precisions, t \in StartTimes :
    \E u \in { FrameUniforms(seed, pr, zt[1], w, size) } :
      /\ cfg = [ autoMovementEnabled |-> on, autoZoomEnabled |-> on ]
      /\ cam = [ setupCamera EXCEPT !.zoom = zt[1], !.targetZoom = zt[2],
                                    !.zoomVelocity = v,
                                    !.panVelocity = [x |-> pv[1], y |-> pv[2]] ]
      /\ isDragging = FALSE
      /\ lastMouse = [x |-> 0, y |-> 0]
      /\ win = w
      /\ frustum = Frustum(w)
      /\ orient = enforceCameraOrientation(setupCamera)
      /\ auto = initializeAuto(<< Pp(1, 1), 0 >>, TRUE, t)
      /\ now = t
      /\ load = "loaded"
      /\ img = [ width |-> size[1], height |-> size[2], planeWidth |-> u.planeWidth ]
      /\ uni = u
      /\ plane = updateOverlay(ToCoarse(zt[1]))
      /\ hud = updateHud(ToCoarse(zt[1]))
      /\ drawn = render(u)
      /\ log = << >>
      /\ steps = 0

\* Frames only, no further input event; requestAnimationFrame keeps them
\* coming.
SpecMomentum == InitMomentum /\ [][NextAuto]_vars /\ WF_steps(FrameDue)

\* ------------------------------------ the first application file (part_000)
\* The camera code of the older file: it has no auto-navigation, overlay or
\* brightness boost.  Its operators take the configuration k they read, so
\* that they can be run under the file's own CONFIG and under that of main.js.

\* CONFIG of the first file: the settings its camera code and shader read.
part000_CONFIG ==
  [ frustumSize              |-> Fp(2, 1),
    zoomStep                 |-> Fp(2, 100),
    minZoom                  |-> Pp(1, 10),
    zoomDamping              |-> Fp(5, 100),
    panDamping               |-> Fp(85, 100),
    planeHeight              |-> Fp(2, 1),
    cameraZ                  |-> Fp(5, 1),
    pointSize                |-> Fp(2, 1),
    zoomThreshold            |-> Fp(1, 1),
    maxZoomForSizeTransition |-> Fp(5, 1),
    displacementAmount       |-> Fp(5, 1000),
    displacementStartZoom    |-> Fp(5, 1),
    displacementFullZoom     |-> Fp(1000, 1) ]

\* setupCamera of the first file: the camera's default zoom 1,
\* targetZoom = camera.zoom, targetPosition = position, zoomVelocity = 0;
\* panVelocity is declared as (0, 0).
part000_setupCamera ==
  [ zoom           |-> Pp(1, 1),
    targetZoom     |-> Pp(1, 1),
    zoomVelocity   |-> 0,
    position       |-> [x |-> 0, y |-> 0],
    targetPosition |-> [x |-> 0, y |-> 0],
    panVelocity    |-> [x |-> 0, y |-> 0] ]

\* The camera bounds setupCamera and onResize of the first file set for the
\* window w.
part000_onResize(k, w) ==
  [ left   |-> -Scaled(DivFine(w[1], w[2]), k.frustumSize),
    right  |-> Scaled(DivFine(w[1], w[2]), k.frustumSize),
    top    |-> ToFine(k.frustumSize),
    bottom |-> -ToFine(k.frustumSize) ]

\* onWheel of the first file.  mouseNDC is (2 * clientX - innerWidth) /
\* innerWidth and (innerHeight - 2 * clientY) / innerHeight; its share of half
\* the visible extent is taken in one rounding.
part000_onWheel(k, c, f, p, w, dy) ==
  LET visibleX   == DivFine(f.right - f.left, c.zoom)
      visibleY   == DivFine(f.top - f.bottom, c.zoom)
      mouseWorld == [ x |-> Prorated(visibleX, 2 * p[1] - w[1], 2 * w[1]) + c.position.x,
                      y |-> Prorated(visibleY, w[2] - 2 * p[2], 2 * w[2]) + c.position.y ]
      direction  == Sign(-dy)
      zoomFactor == direction * k.zoomStep
  IN  [ c EXCEPT
          !.zoomVelocity = @ + Scaled(c.zoom, direction * k.zoomStep),
          !.targetPosition =
            [ x |-> @.x + Scaled(mouseWorld.x - c.position.x, zoomFactor),
              y |-> @.y + Scaled(mouseWorld.y - c.position.y, zoomFactor) ] ]

\* onMouseDown of the first file.
part000_onMouseDown(c) == [ c EXCEPT !.panVelocity = [x |-> 0, y |-> 0] ]

\* onMouseMove of the first file while a drag is active: dx and dy are the
\* pointer's move in pixels over the window's width and height.
part000_onMouseMove(c, f, p, m, w) ==
  LET panX == -Prorated(DivFine(f.right - f.left, c.zoom), p[1] - m.x, w[1])
      panY == Prorated(DivFine(f.top - f.bottom, c.zoom), p[2] - m.y, w[2])
  IN  [ c EXCEPT
          !.position       = [ x |-> c.position.x + panX, y |-> c.position.y + panY ],
          !.targetPosition = [ x |-> c.position.x + panX, y |-> c.position.y + panY ],
          !.panVelocity    = [ x |-> panX, y |-> panY ] ]

\* updateZoom of the first file.
part000_updateZoom(k, c) ==
  LET moving == Abs(c.zoomVelocity) > ZoomEpsilon
      sum    == c.targetZoom + c.zoomVelocity
      hit    == moving /\ sum < k.minZoom
      tz     == IF ~moving THEN c.targetZoom
                ELSE IF hit THEN k.minZoom ELSE sum
      zv     == IF ~moving THEN 0
                ELSE Scaled(IF hit THEN 0 ELSE c.zoomVelocity, k.zoomDamping)
      z      == c.zoom + Scaled(tz - c.zoom, BlendFraction)
  IN  [ c EXCEPT
          !.targetZoom   = tz,
          !.zoomVelocity = zv,
          !.zoom         = Max(k.minZoom, z),
          !.position     =
            [ x |-> @.x + Scaled(c.targetPosition.x - @.x, BlendFraction),
              y |-> @.y + Scaled(c.targetPosition.y - @.y, BlendFraction) ] ]

\* updatePan of the first file.
part000_updatePan(k, c, dragging) ==
  IF ~dragging /\ (Abs(c.panVelocity.x) > PanEpsilon \/ Abs(c.panVelocity.y) > PanEpsilon)
  THEN [ c EXCEPT
           !.targetPosition = [ x |-> @.x + c.panVelocity.x, y |-> @.y + c.panVelocity.y ],
           !.panVelocity    = [ x |-> Scaled(@.x, k.panDamping),
                                y |-> Scaled(@.y, k.panDamping) ] ]
  ELSE IF ~dragging
  THEN [ c EXCEPT !.panVelocity = [x |-> 0, y |-> 0] ]
  ELSE c

\* The camera state after animate of the first file: updateZoom, updatePan,
\* then the orientation, uniforms and draw, which leave it alone.
part000_animate(k, c, dragging) == part000_updatePan(k, part000_updateZoom(k, c), dragging)

\* ================================================================== claims

\* C1.  After any interleaving of wheel, drag and resize events with frames,
\* camera.zoom is at least CONFIG.minZoom.
C1_ZoomAtLeastMin == cam.zoom >= CONFIG.minZoom

\* C1 witness: the last frame's zoom tick pushed targetZoom below minZoom and
\* clamped it, with the camera just above the floor.
C1_Witness ==
  /\ load = "loaded"
  /\ log[1].step = "updateZoom"
  /\ log[1].camBefore.targetZoom + log[1].camBefore.zoomVelocity < CONFIG.minZoom
  /\ log[1].camAfter.targetZoom = CONFIG.minZoom
  /\ cam.zoom < Pp(12, 100)

\* C2.  In the zoom scenario (zoom = targetZoom at rest, one positive impulse,
\* MaxTicks zoom ticks, no other input): zoom never decreases from tick to
\* tick; a velocity of at most the epsilon becomes exactly 0 in the next tick
\* and targetZoom then stays; after the last tick the velocity is 0 and zoom
\* is strictly above its start; zoom is never below minZoom.
C2_ZoomScenario ==
  /\ [](cam.zoom >= CONFIG.minZoom)
  /\ [](steps = MaxTicks =>
          /\ cam.zoom > ToFine(uni.cameraZoom)
          /\ cam.zoomVelocity = 0
          /\ cam.targetZoom > ToFine(uni.cameraZoom))
  /\ [][ /\ cam'.zoom >= cam.zoom
         /\ Abs(cam.zoomVelocity) <= ZoomEpsilon =>
              cam'.zoomVelocity = 0 /\ cam'.targetZoom = cam.targetZoom ]_vars

\* C2 witness: the claim's own run, from zoom 1.0 with impulse 0.02, after
\* the last tick: the target has settled at 1.021 and zoom is above 1.0.
C2_Witness ==
  /\ steps = MaxTicks
  /\ uni.cameraZoom = Fp(1, 1)
  /\ cam.targetZoom = Pp(1, 1) + Pp(21, 1000)
  /\ cam.zoomVelocity = 0
  /\ cam.zoom > Pp(1, 1)

\* The centre of the window w, in pixels.
Centre(w) == << w[1] \div 2, w[2] \div 2 >>

\* ndc * (extent / 2) / zoom taken in the order of the claim's formula: the
\* fraction num / den of half the extent first, the division by zoom last.
AnchorFromHalfExtent(num, den, extent, zoom) ==
  DivFine(Prorated(extent, num, 2 * den), zoom)

\* C3.  A zoom-in wheel event (deltaY < 0) with the cursor at the screen
\* centre leaves targetPosition unchanged; off centre it adds zoomStep times
\* (anchor - camera position) to targetPosition, a shift pointing from the
\* camera toward the anchor, where anchor = ndc * half visible extent / zoom
\* + camera position.  The anchor is that of the handler, and agrees to
\* 0.000001 with the formula taken in the claim's order from the pointer's
\* pixel position; a pointer on the right edge has its anchor on the right
\* bound of the visible extent; the shift points right for a pointer right
\* of the centre and up for a pointer above it, and is not zero there.
C3_WheelAnchors ==
  [][ \A p \in Pointers(win[1], win[2]), dy \in WheelDeltas :
        (dy < 0 /\ Wheel(p, dy)) =>
          LET anchor == MouseWorld(cam, frustum, p, win)
              offX == AnchorFromHalfExtent(2 * p[1] - win[1], win[1],
                                           frustum.right - frustum.left, cam.zoom)
              offY == AnchorFromHalfExtent(win[2] - 2 * p[2], win[2],
                                           frustum.top - frustum.bottom, cam.zoom)
              shiftX == cam'.targetPosition.x - cam.targetPosition.x
              shiftY == cam'.targetPosition.y - cam.targetPosition.y
          IN  /\ p = Centre(win) => shiftX = 0 /\ shiftY = 0
              /\ shiftX = Scaled(anchor.x - cam.position.x, CONFIG.zoomStep)
              /\ shiftY = Scaled(anchor.y - cam.position.y, CONFIG.zoomStep)
              /\ Abs((anchor.x - cam.position.x) - offX) <= 10
              /\ Abs((anchor.y - cam.position.y) - offY) <= 10
              /\ Abs(shiftX - Scaled(offX, CONFIG.zoomStep)) <= 1
              /\ Abs(shiftY - Scaled(offY, CONFIG.zoomStep)) <= 1
              /\ p[1] = win[1] =>
                   Abs((anchor.x - cam.position.x) - DivFine(frustum.right, cam.zoom)) <= 1
              /\ Sign(shiftX) = Sign(2 * p[1] - win[1])
              /\ Sign(shiftY) = Sign(win[2] - 2 * p[2])
              /\ cam'.zoomVelocity = cam.zoomVelocity + Scaled(cam.zoom, CONFIG.zoomStep)
              /\ cam'.position = cam.position ]_vars

\* C3 witness: since the last frame a zoom-in wheel event left of and above
\* the centre, at a pixel whose window fractions are not multiples of 0.0001,
\* has raised zoomVelocity and moved targetPosition left and up, the camera
\* itself unmoved.
C3_Witness ==
  /\ load = "loaded"
  /\ cam.zoomVelocity > log[Len(log)].camAfter.zoomVelocity
  /\ cam.targetPosition.x < log[Len(log)].camAfter.targetPosition.x
  /\ cam.targetPosition.y > log[Len(log)].camAfter.targetPosition.y
  /\ cam.position = log[Len(log)].camAfter.position
  /\ ~isDragging

\* C4.  After every frame the overlay's opacity is 1 for zoom <= 4.0, 0 for
\* zoom >= 12.0, 1 - (zoom - 4) / 8 in between (0.5 at zoom 8.0), and always
\* within [0, 1].
C4_OverlayOpacity ==
  load = "loaded" =>
    /\ plane.opacity >= 0 /\ plane.opacity <= SCALE
    /\ cam.zoom <= Pp(4, 1) => plane.opacity = SCALE
    /\ cam.zoom >= Pp(12, 1) => plane.opacity = 0
    /\ (cam.zoom > Pp(4, 1) /\ cam.zoom < Pp(12, 1)) =>
         plane.opacity = SCALE - Quot(ToCoarse(cam.zoom) - Fp(4, 1), Fp(8, 1))
    /\ cam.zoom = Pp(8, 1) => plane.opacity = Fp(1, 2)

\* C4 witness: a frame drawn at the midpoint zoom 8.0 with the overlay half
\* transparent.
C4_Witness == load = "loaded" /\ cam.zoom = Pp(8, 1) /\ plane.opacity = Fp(1, 2)

\* Zoom levels the sampling rate is compared at.
ZoomGrid ==
  { Fp(1, 10), Fp(1, 2), Fp(1, 1), Fp(14, 10), Fp(3, 2), Fp(2, 1), Fp(8, 1), Fp(80, 1) }

\* The uniforms the last draw ran with.
DrawnUniforms ==
  [ uni EXCEPT !.cameraZoom = drawn.cameraZoom,
               !.screenWidth = drawn.screenWidth,
               !.screenHeight = drawn.screenHeight ]

\* C5.  For a fixed image and screen size the sampling rate of a draw lies in
\* [0, 1], is 1 whenever the estimated visible pixel count is at least the
\* number of points, and is non-decreasing in the zoom level.
C5_SamplingRate ==
  load = "loaded" =>
    /\ drawn.samplingRate >= 0 /\ drawn.samplingRate <= SCALE
    /\ visiblePixels(DrawnUniforms) >= uni.imageWidth * uni.imageHeight =>
         drawn.samplingRate = SCALE
    /\ \A z \in ZoomGrid :
         LET rate == samplingRate([ DrawnUniforms EXCEPT !.cameraZoom = z ])
         IN  /\ rate >= 0 /\ rate <= SCALE
             /\ z >= drawn.cameraZoom => rate >= drawn.samplingRate
             /\ z <= drawn.cameraZoom => rate <= drawn.samplingRate

\* C5 witness: a draw below saturation (some samples hidden, some shown) for
\* which a higher zoom level of the grid gives a strictly higher rate.
C5_Witness ==
  /\ load = "loaded"
  /\ drawn.samplingRate > 0 /\ drawn.samplingRate < SCALE
  /\ drawn.visible # {} /\ drawn.visible # SamplePoints
  /\ \E z \in ZoomGrid :
       /\ z > drawn.cameraZoom
       /\ samplingRate([ DrawnUniforms EXCEPT !.cameraZoom = z ]) > drawn.samplingRate

\* The piecewise-linear ramp of C6 at the zoom level z.
DisplacementRamp(z) ==
  IF z <= CONFIG.displacementStartZoom THEN 0
  ELSE IF z >= CONFIG.displacementFullZoom THEN SCALE
  ELSE Quot(z - CONFIG.displacementStartZoom,
            CONFIG.displacementFullZoom - CONFIG.displacementStartZoom)

\* Zoom levels the two computations of the factor are compared at besides
\* the level of the frame: both ends of the ramp, inside it and beyond it.
DisplacementGrid ==
  { Fp(1, 10), Fp(5, 1), Fp(6, 1), Fp(500, 1), Fp(999, 1), Fp(1000, 1), Fp(1100, 1) }

\* C6.  displacementFactor is 0 for zoom <= displacementStartZoom, 1 for
\* zoom >= displacementFullZoom and linear in between, and after a frame the
\* value shown by the zoom counter and the value the shader used agree; the
\* same holds of both computations at every level of DisplacementGrid under
\* the uniforms of the frame.
C6_DisplacementFactor ==
  load = "loaded" =>
    /\ hud.displacementFactor = DisplacementRamp(ToCoarse(cam.zoom))
    /\ drawn.displacementFactor = DisplacementRamp(drawn.cameraZoom)
    /\ hud.displacementFactor = drawn.displacementFactor
    /\ \A z \in DisplacementGrid :
         /\ hudDisplacementFactor(z) = DisplacementRamp(z)
         /\ displacementFactor([ uni EXCEPT !.cameraZoom = z ]) = DisplacementRamp(z)

\* C6 witness: a frame drawn inside the ramp, both values equal and strictly
\* between 0 and 1, whose uniforms give the shader the factor 1 at
\* displacementFullZoom and 0 at displacementStartZoom.
C6_Witness ==
  /\ load = "loaded"
  /\ cam.zoom > ToFine(CONFIG.displacementStartZoom)
  /\ hud.displacementFactor > 0 /\ hud.displacementFactor < SCALE
  /\ hud.displacementFactor = drawn.displacementFactor
  /\ displacementFactor([ uni EXCEPT !.cameraZoom = CONFIG.displacementFullZoom ]) = SCALE
  /\ displacementFactor([ uni EXCEPT !.cameraZoom = CONFIG.displacementStartZoom ]) = 0

\* C7.  The seed uniform is written once, when the image has loaded, and no
\* frame or event rewrites it; two draws at the same zoom level and screen
\* size, whatever the time uniform, show the same set of samples.
C7_SeedStable ==
  [][ /\ uni'.seed # uni.seed => load = "pending" /\ load' = "loaded"
      /\ ( /\ load = "loaded"
           /\ drawn'.cameraZoom = drawn.cameraZoom
           /\ drawn'.screenWidth = drawn.screenWidth
           /\ drawn'.screenHeight = drawn.screenHeight ) =>
           drawn'.visible = drawn.visible ]_vars

\* C7 witness: a second frame drawn at the zoom level of the first, at a
\* later time, with some samples hidden and some shown.
C7_Witness ==
  /\ load = "loaded"
  /\ drawn.time >= 2 * TimeStep
  /\ log[1].camBefore.zoom = cam.zoom
  /\ ToCoarse(cam.zoom) = drawn.cameraZoom
  /\ drawn.visible # {} /\ drawn.visible # SamplePoints

\* The order of a frame's steps that C8 states.
FrameOrder ==
  << "updateZoom", "updatePan", "updateAutoMovement", "updateAutoZoom",
     "enforceCameraOrientation", "pushUniforms", "render" >>

\* The places of the step called name in the last frame's log.
Places(name) == { i \in 1..Len(log) : log[i].step = name }

\* C8.  A frame runs, each exactly once and in this order, the zoom tick, the
\* pan tick, the auto-movement tick, the auto-zoom tick, the orientation
\* enforcement, the uniform push and the draw; each step starts from the state
\* its predecessor left (no handler runs in between), and the draw uses the
\* zoom level the ticks of the same frame produced.
C8_FrameOrder ==
  load = "loaded" =>
    /\ \A k \in 1..Len(FrameOrder) : Cardinality(Places(FrameOrder[k])) = 1
    /\ \A k \in 1..(Len(FrameOrder) - 1) :
         \A i \in Places(FrameOrder[k]), j \in Places(FrameOrder[k + 1]) : i < j
    /\ \A i \in 1..(Len(log) - 1) :
         /\ log[i + 1].camBefore = log[i].camAfter
         /\ log[i + 1].autoBefore = log[i].autoAfter
    /\ drawn.cameraZoom = ToCoarse(log[Len(log)].camAfter.zoom)
    /\ orient.lookAt = log[Len(log)].camAfter.position

\* C8 witness: a frame in which the zoom tick, the pan or auto-movement tick
\* and the auto-zoom tick each changed the camera, drawn at the zoom level
\* they left.
C8_Witness ==
  /\ load = "loaded"
  /\ log[1].camAfter.zoom # log[1].camBefore.zoom
  /\ log[3].camAfter.targetPosition # log[3].camBefore.targetPosition
  /\ log[4].camAfter.targetZoom # log[4].camBefore.targetZoom
  /\ drawn.cameraZoom = ToCoarse(cam.zoom)

\* A step of an input handler: wheel, mouse down, mouse up or mouse move.
HandlerStep ==
  \/ \E p \in Pointers(win[1], win[2]) :
       \/ \E dy \in WheelDeltas : Wheel(p, dy)
       \/ MouseDown(p)
       \/ MouseMove(p)
  \/ MouseUp

\* A frame: animate() run by the load callback or by requestAnimationFrame.
FrameStep == uni'.time # uni.time

\* C9 as stated.  Input handlers write only target and velocity state and the
\* drag flag; camera.zoom and camera.position are changed only by the frame.
C9_HandlersWriteTargetsOnly ==
  [][ /\ HandlerStep => cam'.zoom = cam.zoom /\ cam'.position = cam.position
      /\ (cam'.zoom # cam.zoom \/ cam'.position # cam.position) => FrameStep ]_vars

\* C9, amended.  Input handlers write only targetPosition, zoomVelocity,
\* panVelocity, the drag flag and the last pointer position, except that a
\* mouse move during a drag also sets camera.position (and targetPosition) to
\* the panned position at once; camera.zoom and targetZoom are changed only by
\* the frame, camera.position only by the frame and by such a mouse move.
C9_HandlersWriteTargetsOrDrag ==
  [][ /\ HandlerStep =>
           /\ cam'.zoom = cam.zoom /\ cam'.targetZoom = cam.targetZoom
           /\ UNCHANGED << auto, orient, uni, plane, hud, drawn, frustum, win >>
           /\ cam'.position # cam.position =>
                /\ isDragging /\ isDragging'
                /\ \E p \in Pointers(win[1], win[2]) : MouseMove(p)
                /\ cam'.targetPosition = cam'.position
      /\ (cam'.zoom # cam.zoom \/ cam'.targetZoom # cam.targetZoom) => FrameStep
      /\ cam'.position # cam.position => FrameStep \/ (isDragging /\ HandlerStep) ]_vars

\* C9 witness: before any frame has run, a drag has moved the camera's
\* position together with targetPosition.
C9_Witness ==
  /\ load = "pending"
  /\ isDragging
  /\ cam.position # setupCamera.position
  /\ cam.targetPosition = cam.position
  /\ cam.zoom = setupCamera.zoom

\* The log entries of the two auto-navigation steps.
AutoEntries ==
  { i \in 1..Len(log) : log[i].step \in { "updateAutoMovement", "updateAutoZoom" } }

\* The flag that enables the auto-navigation step of log entry i.
AutoFlag(i) ==
  IF log[i].step = "updateAutoMovement" THEN log[i].cfg.autoMovementEnabled
  ELSE log[i].cfg.autoZoomEnabled

\* C10.  In a frame where a drag is active, or where the step's enable flag
\* is false, updateAutoMovement and updateAutoZoom leave the drift direction,
\* the target direction, the zoom direction, the target zoom direction, the
\* auto-zoom velocity, the last-tick timestamp, targetPosition and targetZoom
\* (the whole camera state) unchanged.
C10_AutoNavIdle ==
  \A i \in AutoEntries :
    (log[i].dragging \/ ~AutoFlag(i)) =>
      /\ log[i].autoAfter = log[i].autoBefore
      /\ log[i].camAfter = log[i].camBefore

\* C10 witness: a frame run during a drag with both flags on, whose zoom
\* tick moved the camera while both auto-navigation steps left all as it was.
C10_Witness ==
  /\ load = "loaded"
  /\ AutoEntries # {}
  /\ \A i \in AutoEntries :
       /\ log[i].dragging /\ AutoFlag(i)
       /\ log[i].autoAfter = log[i].autoBefore
       /\ log[i].camAfter = log[i].camBefore
  /\ log[1].camAfter # log[1].camBefore

\* C11.  Until the image has loaded, and for ever after a load error, no
\* frame runs: no tick is logged, nothing is pushed or drawn, the camera's zoom
\* and its target stay as set up; a load error changes nothing but the load
\* status; a frame runs only in or after the successful load, when the point
\* mesh (its uniforms) and the image's plane exist.
C11_NoFrameWithoutLoad ==
  /\ [](load # "loaded" =>
          /\ log = << >> /\ drawn = NoDraw /\ uni = NoUniforms /\ plane = NoPlane
          /\ hud = NoHud
          /\ cam.zoom = setupCamera.zoom /\ cam.targetZoom = setupCamera.targetZoom)
  /\ [](load = "loaded" => uni.imageWidth > 0 /\ img.planeWidth > 0 /\ log # << >>)
  /\ [][ /\ load = "failed" =>
              /\ load' = "failed"
              /\ UNCHANGED << log, drawn, uni, plane, hud, orient, auto >>
         /\ (load = "pending" /\ load' = "failed") =>
              UNCHANGED << cfg, cam, isDragging, lastMouse, win, frustum, orient, auto,
                           now, img, uni, plane, hud, drawn, log >>
         /\ (log' # log \/ uni'.time # uni.time \/ drawn' # drawn) => load' = "loaded" ]_vars

\* C11 witness: the load has failed and afterwards a wheel event and a mouse
\* down were handled, the wheel's velocity still undamped as no tick ran.
C11_Witness ==
  /\ load = "failed"
  /\ isDragging
  /\ cam.zoomVelocity # 0
  /\ log = << >>

\* C12.  However resize events interleave with frames and with the load,
\* every draw uses screenWidth and screenHeight uniforms equal to the window's
\* current size, and the camera's left and right bounds are -/+ frustumSize
\* times the current aspect ratio (top and bottom +/- frustumSize); between
\* draws the uniforms already carry the current size.
C12_ResizeBeforeDraw ==
  /\ [](/\ frustum.right = Scaled(DivFine(win[1], win[2]), CONFIG.frustumSize)
        /\ frustum.left = -Scaled(DivFine(win[1], win[2]), CONFIG.frustumSize)
        /\ frustum.top = ToFine(CONFIG.frustumSize)
        /\ frustum.bottom = -ToFine(CONFIG.frustumSize)
        /\ load = "loaded" => uni.screenWidth = win[1] /\ uni.screenHeight = win[2])
  /\ [][ FrameStep =>
           /\ drawn'.screenWidth = win'[1] /\ drawn'.screenHeight = win'[2]
           /\ drawn'.screenWidth = uni'.screenWidth
           /\ drawn'.screenHeight = uni'.screenHeight ]_vars

\* C12 witness: a resize event has arrived since the last draw; the uniforms
\* and the camera bounds already have the new size, the last draw the old.
C12_Witness ==
  /\ load = "loaded"
  /\ drawn.screenWidth # win[1]
  /\ uni.screenWidth = win[1]
  /\ frustum.right = Scaled(DivFine(win[1], win[2]), CONFIG.frustumSize)

\* The momentum branch of the pan tick: no drag and panVelocity over the
\* threshold on entry.
PanMomentum ==
  /\ ~isDragging
  /\ (Abs(cam.panVelocity.x) > PanEpsilon \/ Abs(cam.panVelocity.y) > PanEpsilon)

\* What the momentum branch does: panVelocity is added to targetPosition and
\* multiplied by panDamping.
PanMomentumEffect ==
  /\ cam'.targetPosition = [ x |-> cam.targetPosition.x + cam.panVelocity.x,
                             y |-> cam.targetPosition.y + cam.panVelocity.y ]
  /\ cam'.panVelocity = [ x |-> Scaled(cam.panVelocity.x, CONFIG.panDamping),
                          y |-> Scaled(cam.panVelocity.y, CONFIG.panDamping) ]

\* C13 as stated.  A pan tick with no drag and panVelocity over the threshold
\* adds panVelocity to targetPosition and damps it; in every other case, a
\* drag included, panVelocity is (0, 0) after the tick.
C13_PanTickZeroes ==
  [][ PanTick =>
        IF PanMomentum THEN PanMomentumEffect
        ELSE cam'.panVelocity = [x |-> 0, y |-> 0] ]_vars

\* C13, amended.  A pan tick with no drag and panVelocity over the threshold
\* adds panVelocity to targetPosition and damps it; with no drag and
\* panVelocity within the threshold it sets panVelocity to (0, 0); during a
\* drag it changes nothing, so the velocity of the last drag move is kept.
C13_PanTick ==
  [][ PanTick =>
        /\ cam'.zoom = cam.zoom /\ cam'.targetZoom = cam.targetZoom
        /\ cam'.zoomVelocity = cam.zoomVelocity /\ cam'.position = cam.position
        /\ IF PanMomentum THEN PanMomentumEffect
           ELSE IF ~isDragging
           THEN /\ cam'.panVelocity = [x |-> 0, y |-> 0]
                /\ cam'.targetPosition = cam.targetPosition
           ELSE cam' = cam ]_vars

\* C13 witness: pan ticks have run during a drag and the panVelocity of the
\* drag is still there, targetPosition unmoved.
C13_Witness ==
  /\ isDragging
  /\ steps >= 2
  /\ cam.panVelocity = [x |-> Pp(1, 100), y |-> -Pp(2, 100)]
  /\ cam.targetPosition = setupCamera.targetPosition

\* The log entries of the zoom tick.
ZoomEntries == { i \in 1..Len(log) : log[i].step = "updateZoom" }

\* C14.  A zoom tick entered with |zoomVelocity| > 0.0001 sets targetZoom to
\* max(minZoom, targetZoom + zoomVelocity) and zoomVelocity to 0 if that clamp
\* applied and to zoomVelocity * zoomDamping otherwise; a zoom tick entered
\* with |zoomVelocity| <= 0.0001 leaves targetZoom and sets zoomVelocity to 0.
C14_ZoomTick ==
  \A i \in ZoomEntries :
    IF Abs(log[i].camBefore.zoomVelocity) > ZoomEpsilon
    THEN /\ log[i].camAfter.targetZoom =
              Max(CONFIG.minZoom,
                  log[i].camBefore.targetZoom + log[i].camBefore.zoomVelocity)
         /\ log[i].camAfter.zoomVelocity =
              IF log[i].camBefore.targetZoom + log[i].camBefore.zoomVelocity
                   < CONFIG.minZoom
              THEN 0
              ELSE Scaled(log[i].camBefore.zoomVelocity, CONFIG.zoomDamping)
    ELSE /\ log[i].camAfter.targetZoom = log[i].camBefore.targetZoom
         /\ log[i].camAfter.zoomVelocity = 0

\* C14 witness: a zoom tick of the last frame was entered with a zoom-out
\* velocity that took targetZoom below minZoom, and left targetZoom at
\* minZoom with zoomVelocity 0.
C14_Witness ==
  \E i \in ZoomEntries :
    /\ log[i].camBefore.zoomVelocity < -ZoomEpsilon
    /\ log[i].camBefore.targetZoom + log[i].camBefore.zoomVelocity < CONFIG.minZoom
    /\ log[i].camAfter.targetZoom = CONFIG.minZoom
    /\ log[i].camAfter.zoomVelocity = 0

\* C15.  A mouse move outside a drag changes nothing; during a drag it moves
\* the camera's position by the world-space pan (-dx * (right - left) / zoom,
\* dy * (top - bottom) / zoom), dx and dy being the pointer's move since the
\* previous position divided by the window's width and height, sets
\* targetPosition to the new position and panVelocity to that pan, and
\* remembers the pointer.
C15_DragMove ==
  [][ \A p \in Pointers(win[1], win[2]) :
        MouseMove(p) =>
          IF ~isDragging
          THEN UNCHANGED << cfg, cam, isDragging, lastMouse, win, frustum, orient, auto,
                            now, load, img, uni, plane, hud, drawn, log >>
          ELSE LET panX == -PanAmount(p[1] - lastMouse.x, win[1],
                                       frustum.right - frustum.left, cam.zoom)
                   panY == PanAmount(p[2] - lastMouse.y, win[2],
                                     frustum.top - frustum.bottom, cam.zoom)
               IN  /\ cam'.position = [ x |-> cam.position.x + panX,
                                        y |-> cam.position.y + panY ]
                   /\ cam'.targetPosition = cam'.position
                   /\ cam'.panVelocity = [ x |-> panX, y |-> panY ]
                   /\ cam'.zoom = cam.zoom /\ cam'.targetZoom = cam.targetZoom
                   /\ cam'.zoomVelocity = cam.zoomVelocity
                   /\ lastMouse' = [ x |-> p[1], y |-> p[2] ]
                   /\ isDragging' ]_vars

\* C15 witness: during a drag the pointer has moved right and up since the
\* last frame; the camera has moved left and down with its target, and the
\* pan is kept as panVelocity.
C15_Witness ==
  /\ load = "loaded"
  /\ isDragging
  /\ lastMouse = [ x |-> win[1], y |-> win[2] \div 4 ]
  /\ cam.position # log[Len(log)].camAfter.position
  /\ cam.targetPosition = cam.position
  /\ cam.panVelocity.x < 0 /\ cam.panVelocity.y < 0
  /\ cam.position.x = log[Len(log)].camAfter.position.x + cam.panVelocity.x

\* The log entries of auto-zoom steps that ran: flag on, no drag.
ActiveZoomEntries ==
  { i \in 1..Len(log) :
      /\ log[i].step = "updateAutoZoom"
      /\ log[i].cfg.autoZoomEnabled
      /\ ~log[i].dragging }

\* The target directions the step of entry i may have had after its random
\* flip: those from which the smoothing gives the direction the step left.
FlipOutcomes(i) ==
  { t1 \in { log[i].autoBefore.targetAutoZoomDirection,
             -log[i].autoBefore.targetAutoZoomDirection } :
      log[i].autoAfter.autoZoomDirection =
        log[i].autoBefore.autoZoomDirection
          + Scaled(t1 - log[i].autoBefore.autoZoomDirection, SmoothingFactor) }

\* The zoom level the step of entry i read is at or beyond an auto-zoom bound.
AtBound(i) ==
  \/ log[i].camBefore.zoom >= CONFIG.autoZoomMaxLevel
  \/ log[i].camBefore.zoom <= CONFIG.autoZoomMinLevel

\* ... and the smoothed direction of the step points out of the range there.
Outward(i) ==
  \/ /\ log[i].camBefore.zoom >= CONFIG.autoZoomMaxLevel
     /\ log[i].autoAfter.autoZoomDirection > 0
  \/ /\ log[i].camBefore.zoom <= CONFIG.autoZoomMinLevel
     /\ log[i].autoAfter.autoZoomDirection < 0

\* C16 as stated.  In every active auto-zoom step that reads a zoom level at
\* or beyond an auto-zoom bound, the bound check flips targetZoomDirection.
C16_FlipAtBound ==
  \A i \in ActiveZoomEntries :
    AtBound(i) =>
      /\ FlipOutcomes(i) # {}
      /\ \A t1 \in FlipOutcomes(i) : log[i].autoAfter.targetAutoZoomDirection = -t1

\* C16, amended.  In every active auto-zoom step the bound check flips
\* targetZoomDirection exactly when the zoom level is at or beyond a bound and
\* the direction just smoothed points outward (> 0 at autoZoomMaxLevel, < 0 at
\* autoZoomMinLevel); at a bound with the direction pointing inward, as at
\* start-up with zoom 1 and direction +1, it is not flipped.
C16_FlipAtBoundOutward ==
  \A i \in ActiveZoomEntries :
    /\ FlipOutcomes(i) # {}
    /\ \A t1 \in FlipOutcomes(i) :
         log[i].autoAfter.targetAutoZoomDirection = IF Outward(i) THEN -t1 ELSE t1

\* C16 witness: an active step at the upper bound with the direction and its
\* target pointing up has turned the target down.
C16_Witness ==
  \E i \in ActiveZoomEntries :
    /\ log[i].camBefore.zoom >= CONFIG.autoZoomMaxLevel
    /\ log[i].autoAfter.autoZoomDirection > 0
    /\ log[i].autoBefore.targetAutoZoomDirection = Pp(1, 1)
    /\ log[i].autoAfter.targetAutoZoomDirection = -Pp(1, 1)

\* Zoom is at or beyond the upper auto-zoom bound and the smoothed direction
\* points up, out of the range.
StuckHigh == cam.zoom >= CONFIG.autoZoomMaxLevel /\ auto.autoZoomDirection > 0

\* Both directions point down, away from the upper bound.
AwayHigh == auto.targetAutoZoomDirection < 0 /\ auto.autoZoomDirection < 0

\* Zoom is at or beyond the lower auto-zoom bound and the smoothed direction
\* points down, out of the range.
StuckLow == cam.zoom <= CONFIG.autoZoomMinLevel /\ auto.autoZoomDirection < 0

\* Both directions point up, away from the lower bound.
AwayLow == auto.targetAutoZoomDirection > 0 /\ auto.autoZoomDirection > 0

\* C17.  With auto-zoom on, no drag, no random flip and no wheel input: from
\* a state with zoom at or beyond an auto-zoom bound and the direction
\* pointing outward, a state is reached in which targetZoomDirection and the
\* smoothed zoomDirection both point away from that bound, and from then on
\* they keep doing so as long as zoom stays at or beyond the bound.
C17_UnstuckAtBound ==
  /\ StuckHigh ~> AwayHigh
  /\ StuckLow ~> AwayLow
  /\ [][ (cam.zoom >= CONFIG.autoZoomMaxLevel /\ AwayHigh
            /\ cam'.zoom >= CONFIG.autoZoomMaxLevel) => AwayHigh' ]_vars
  /\ [][ (cam.zoom <= CONFIG.autoZoomMinLevel /\ AwayLow
            /\ cam'.zoom <= CONFIG.autoZoomMinLevel) => AwayLow' ]_vars

\* C17 witness: the frame just run, at the upper bound, began with the
\* smoothed direction still pointing up and ended with both directions down.
C17_Witness ==
  /\ steps > 1
  /\ cam.zoom >= CONFIG.autoZoomMaxLevel
  /\ \E i \in ActiveZoomEntries : log[i].autoBefore.autoZoomDirection > 0
  /\ AwayHigh

\* targetZoom z lies within the auto-zoom bounds.
WithinAutoZoom(z) == CONFIG.autoZoomMinLevel <= z /\ z <= CONFIG.autoZoomMaxLevel

\* The log entries of the draw.
RenderEntries == { i \in 1..Len(log) : log[i].step = "render" }

\* C18.  Every active auto-zoom step (flag on, no drag) leaves targetZoom
\* within [autoZoomMinLevel, autoZoomMaxLevel], whatever it was before the
\* step, and targetZoom is still within these bounds at the draw of the frame.
C18_TargetZoomWithinBounds ==
  \A i \in ActiveZoomEntries :
    /\ WithinAutoZoom(log[i].camAfter.targetZoom)
    /\ \A j \in RenderEntries : WithinAutoZoom(log[j].camAfter.targetZoom)

\* C18 witness: a drawn frame whose active auto-zoom step found targetZoom
\* above autoZoomMaxLevel, driven there by the wheel, and brought it back.
C18_Witness ==
  /\ RenderEntries # {}
  /\ \E i \in ActiveZoomEntries :
       /\ log[i].camBefore.targetZoom > CONFIG.autoZoomMaxLevel
       /\ log[i].camAfter.targetZoom = CONFIG.autoZoomMaxLevel

\* C19.  In every reachable state targetAutoZoomDirection is exactly -1 or +1
\* and the smoothed autoZoomDirection lies in the closed interval [-1, +1].
C19_ZoomDirections ==
  /\ auto.targetAutoZoomDirection \in { -Pp(1, 1), Pp(1, 1) }
  /\ -Pp(1, 1) <= auto.autoZoomDirection
  /\ auto.autoZoomDirection <= Pp(1, 1)

\* C19 witness: after an active auto-zoom step that negated the target
\* direction, the smoothed direction is on its way between the two ends.
C19_Witness ==
  /\ \E i \in ActiveZoomEntries :
       log[i].autoAfter.targetAutoZoomDirection =
         -log[i].autoBefore.targetAutoZoomDirection
  /\ auto.targetAutoZoomDirection = -Pp(1, 1)
  /\ 0 < auto.autoZoomDirection
  /\ auto.autoZoomDirection < Pp(1, 1)

\* The milliseconds between the timestamp the auto-zoom step of log entry i
\* found and the one it left: the elapsed time that scaled its speed.
ElapsedAt(i) == log[i].autoAfter.lastAutoZoomTime - log[i].autoBefore.lastAutoZoomTime

\* C20 as stated.  Every active auto-zoom step is scaled by no more than the
\* time since the preceding frame, one frame interval, also in the first frame
\* after the load; and every frame advances lastAutoZoomTime to its own time.
C20_ElapsedIsFrameInterval ==
  /\ [](\A i \in ActiveZoomEntries : \E dt \in FrameIntervals : ElapsedAt(i) <= dt)
  /\ [][FrameStep => auto'.lastAutoZoomTime = now']_vars

\* C20, what the code does: an active auto-zoom step is scaled by the time
\* since lastAutoZoomTime was last written, by init or by the previous active
\* step, and leaves lastAutoZoomTime at the frame's time; a frame whose
\* auto-zoom step is idle leaves lastAutoZoomTime as it was.
C20_ElapsedSinceLastActive ==
  /\ [](\A i \in ActiveZoomEntries :
          log[i].autoAfter.autoZoomVelocity =
            MulFine(log[i].autoAfter.autoZoomDirection,
                    ZoomSpeed(log[i].camBefore.zoom,
                              log[i].autoBefore.lastAutoZoomTime,
                              log[i].autoAfter.lastAutoZoomTime)))
  /\ [][FrameStep =>
          IF cfg.autoZoomEnabled /\ ~isDragging
          THEN auto'.lastAutoZoomTime = now'
          ELSE auto'.lastAutoZoomTime = auto.lastAutoZoomTime]_vars

\* C20 witness: the first frame, run 400 ms after init, scaled its auto-zoom
\* step by those 400 ms.
C20_Witness ==
  \E i \in ActiveZoomEntries :
    /\ ElapsedAt(i) = 400
    /\ log[i].autoAfter.autoZoomVelocity # 0

\* Zoom levels the boost factor is compared at, on both sides of
\* maxZoomForSizeTransition and brightnessBoostStartZoom.
BoostGrid ==
  { Fp(1, 1), Fp(5, 1), Fp(8, 1), Fp(10, 1), Fp(11, 1), Fp(15, 1), Fp(80, 1), Fp(1000, 1) }

\* C21 as stated.  The boost factor of a frame is 0 at or below
\* brightnessBoostStartZoom, lies in [0, 1] for every zoom and is
\* non-decreasing in zoom, under the shipped configuration.
C21_BoostFactorRamp ==
  load = "loaded" =>
    /\ uni.cameraZoom <= CONFIG.brightnessBoostStartZoom => BoostFactor(uni.cameraZoom) = 0
    /\ BoostFactor(uni.cameraZoom) >= 0
    /\ BoostFactor(uni.cameraZoom) <= SCALE
    /\ \A z \in BoostGrid :
         /\ BoostFactor(z) >= 0 /\ BoostFactor(z) <= SCALE
         /\ z >= uni.cameraZoom => BoostFactor(z) >= BoostFactor(uni.cameraZoom)

\* C21, what the code does under the shipped configuration, where the ramp's
\* end (maxZoomForSizeTransition = 5) lies below its start
\* (brightnessBoostStartZoom = 10): the boost factor is 0 at or below the
\* start zoom and above it the negative number (zoom - 10) / (5 - 10), never
\* above 0 and non-increasing in zoom; the uniform written is brightnessBoost
\* (-0.05) times it, never negative.
C21_BoostFactorNegative ==
  load = "loaded" =>
    /\ uni.cameraZoom <= CONFIG.brightnessBoostStartZoom => BoostFactor(uni.cameraZoom) = 0
    /\ uni.cameraZoom > CONFIG.brightnessBoostStartZoom =>
         /\ BoostFactor(uni.cameraZoom) < 0
         /\ BoostFactor(uni.cameraZoom) =
              -Quot(uni.cameraZoom - CONFIG.brightnessBoostStartZoom,
                    CONFIG.brightnessBoostStartZoom - CONFIG.maxZoomForSizeTransition)
    /\ \A z \in BoostGrid :
         z >= uni.cameraZoom => BoostFactor(z) <= BoostFactor(uni.cameraZoom)
    /\ uni.brightnessBoost = Mul(CONFIG.brightnessBoost, BoostFactor(uni.cameraZoom))
    /\ uni.brightnessBoost >= 0

\* C21 witness: a frame drawn at a zoom level between 10 and 80 whose boost
\* factor is below -1 and whose brightnessBoost uniform is positive.
C21_Witness ==
  /\ load = "loaded"
  /\ uni.cameraZoom > CONFIG.brightnessBoostStartZoom
  /\ uni.cameraZoom < ToCoarse(CONFIG.autoZoomMaxLevel)
  /\ BoostFactor(uni.cameraZoom) < -SCALE
  /\ uni.brightnessBoost > 0

\* Both auto-navigation flags are off.
FlagsOff == ~cfg.autoMovementEnabled /\ ~cfg.autoZoomEnabled

\* C22.  With autoMovementEnabled and autoZoomEnabled both false and the same
\* numeric configuration (the first file's camera code reading the CONFIG of
\* main.js), main.js and the first file start from the same
\* camera state, and from equal camera states (zoom, targetZoom, zoomVelocity,
\* position, targetPosition, panVelocity, drag flag, camera bounds) every
\* frame tick and every wheel, mouse and resize event leaves them equal.
C22_FirstFileEquivalent ==
  /\ setupCamera = part000_setupCamera
  /\ [](FlagsOff /\ log # << >> =>
          log[Len(log)].camAfter = part000_animate(CONFIG, log[1].camBefore, log[1].dragging))
  /\ [][ FlagsOff =>
          /\ FrameStep =>
               cam' = part000_animate(CONFIG, cam, isDragging) /\ isDragging' = isDragging
          /\ \A p \in Pointers(win[1], win[2]), dy \in WheelDeltas :
               Wheel(p, dy) =>
                 /\ cam' = part000_onWheel(CONFIG, cam, frustum, p, win, dy)
                 /\ isDragging' = isDragging
          /\ \A p \in Pointers(win[1], win[2]) :
               /\ MouseDown(p) => cam' = part000_onMouseDown(cam) /\ isDragging'
               /\ MouseMove(p) =>
                    /\ cam' = IF isDragging
                              THEN part000_onMouseMove(cam, frustum, p, lastMouse, win)
                              ELSE cam
                    /\ isDragging' = isDragging
          /\ MouseUp => cam' = cam /\ ~isDragging'
          /\ \A w \in WindowSizes :
               Resize(w) =>
                 cam' = cam /\ isDragging' = isDragging /\ frustum' = part000_onResize(CONFIG, w)
        ]_vars

\* C22 witness: with both flags off, a frame outside a drag has moved zoom,
\* targetZoom, position and targetPosition, and a wheel event after it has
\* changed zoomVelocity.
C22_Witness ==
  /\ FlagsOff
  /\ ~isDragging
  /\ log # << >>
  /\ log[Len(log)].camAfter.zoom # log[1].camBefore.zoom
  /\ log[Len(log)].camAfter.targetZoom # log[1].camBefore.targetZoom
  /\ log[Len(log)].camAfter.position # log[1].camBefore.position
  /\ log[Len(log)].camAfter.targetPosition # log[1].camBefore.targetPosition
  /\ cam.zoomVelocity # log[Len(log)].camAfter.zoomVelocity

\* zoomVelocity is exactly 0 and panVelocity exactly (0, 0).
AtRest == cam.zoomVelocity = 0 /\ cam.panVelocity = [x |-> 0, y |-> 0]

\* C23.  With no further wheel or drag event and no drag active, frame ticks
\* bring zoomVelocity to exactly 0 and panVelocity to exactly (0, 0) after
\* finitely many ticks, and once both are 0 they remain 0.
C23_MomentumDiesOut ==
  /\ <>AtRest
  /\ [][AtRest => AtRest']_vars

\* C23 witness: the frame just run found pan momentum left, and after it both
\* velocities are zero, many frames after a start with zoom and pan momentum.
C23_Witness ==
  /\ steps > 10
  /\ AtRest
  /\ log # << >>
  /\ log[1].camBefore.panVelocity # [x |-> 0, y |-> 0]

\* C24.  In every reachable state, after any interleaving of input events and
\* frame ticks, targetZoom is at least CONFIG.minZoom.
C24_TargetZoomAtLeastMin == cam.targetZoom >= CONFIG.minZoom

\* C24 witness: the last frame's zoom tick found targetZoom + zoomVelocity
\* below minZoom and left targetZoom at minZoom, where it still is after a
\* zoom-out wheel event has made zoomVelocity negative again.
C24_Witness ==
  /\ \E i \in ZoomEntries :
       /\ log[i].camBefore.targetZoom + log[i].camBefore.zoomVelocity < CONFIG.minZoom
       /\ log[i].camAfter.zoomVelocity = 0
  /\ cam.targetZoom = CONFIG.minZoom
  /\ cam.zoomVelocity < 0

====
